---- MODULE Spec2Model ----
(***************************************************************************)
(* RezKyoo call-orchestration engine (src/index.js).                       *)
(*                                                                         *)
(* State: the three Firestore collections the server uses (batches with    *)
(* their all_restaurants_found sub-collection, calls, dnc), the requests   *)
(* in flight (each async route handler is a process whose position is the  *)
(* await it is suspended at), the call-control commands issued to the      *)
(* telephony provider and the last response of GET /status/:batchId.       *)
(*                                                                         *)
(* Times of day are the four-digit "HHMM" strings of the Places API; two   *)
(* such strings compare as the integers they spell, so they are integers   *)
(* 0..2359 here.  A missing field is the value the JavaScript tests treat  *)
(* as falsy: "" for a string, Absent for a number, present = FALSE for an  *)
(* object.                                                                 *)
(***************************************************************************)
EXTENDS Integers, Sequences, FiniteSets, TLC

\* ---------------------------------------------------------------- bounds
MaxPlaces    == 3   \* places one text search returns
MaxMoreOpen  == 2   \* search_more requests in flight at the same time
MaxHandlers  == 2   \* webhook deliveries being processed at the same time
MaxPending   == 2   \* client: searches and continuations awaiting their response
MaxPolls     == 2   \* client: status polls awaiting their response

\* ------------------------------------------------------ program constants
MAX_CALLS_DEFAULT == 5
MAX_CALLS_HARD    == 8
RANK_LIMIT        == 20

\* process.env of a deployment that sets NGROK_URL, and the module constant
\* NGROK_URL (52) of a process started with process.env = env; "" is the
\* undefined of an unset variable.
PublicUrl == "https://rezkyoo.example"

NGROK_URL(env) ==
  IF "NGROK_URL" \in DOMAIN env /\ env.NGROK_URL # "" THEN env.NGROK_URL
  ELSE IF "PUBLIC_BASE_URL" \in DOMAIN env THEN env.PUBLIC_BASE_URL
  ELSE ""

Absent == -1

\* ------------------------------------------------------------- utilities
Range(s) == {s[i] : i \in 1..Len(s)}

Min(a, b) == IF a <= b THEN a ELSE b

\* Array.prototype.slice(from, to) for 0 <= from, 0 <= to (0-based, end-exclusive).
Slice(s, from, to) ==
  LET hi == Min(to, Len(s))
  IN  IF from >= hi THEN <<>> ELSE [i \in 1..(hi - from) |-> s[from + i]]

\* Array.prototype.slice(0, n): a negative n counts from the end of the array.
SliceTo(s, n) ==
  IF n >= 0 THEN Slice(s, 0, n)
  ELSE IF Len(s) + n <= 0 THEN <<>> ELSE Slice(s, 0, Len(s) + n)

\* ------------------------------------------------- opening hours (4.2)
NoTime  == [present |-> FALSE, day |-> 0, time |-> Absent]
At(d, t) == [present |-> TRUE, day |-> d, time |-> t]
Period(o, c) == [open |-> o, close |-> c]

NoHours           == [present |-> FALSE, has_periods |-> FALSE, periods |-> <<>>]
HoursNoPeriods    == [present |-> TRUE,  has_periods |-> FALSE, periods |-> <<>>]
Hours(ps)         == [present |-> TRUE,  has_periods |-> TRUE,  periods |-> ps]

\* The request as the evaluator resolves it (index.js 197-255): the parsed
\* "HH:mm" read as UTC and shown in the zone `tz` hours away from UTC.
\* time = Absent stands for a time string that does not parse.
TimeParses(time) ==
  /\ time # Absent
  /\ time \div 100 \in 0..23
  /\ time % 100 \in 0..59

RequestMinutes(time, tz) == (time \div 100) * 60 + (time % 100) + tz * 60

RequestDayOfWeek(day, time, tz) ==
  LET m == RequestMinutes(time, tz)
  IN  IF m < 0 THEN (day + 6) % 7 ELSE IF m >= 1440 THEN (day + 1) % 7 ELSE day

RequestTime(time, tz) ==
  LET m == (RequestMinutes(time, tz) + 1440) % 1440
  IN  (m \div 60) * 100 + (m % 60)

\* One iteration of the loop over opening_hours.periods (index.js 258-269):
\* "open" (return true), or "next" (continue with the following period).
PeriodVerdict(period, requestDayOfWeek, requestTime) ==
  IF /\ period.open.present /\ ~period.close.present
     /\ period.open.day = 0 /\ period.open.time = 0
  THEN "open"
  ELSE IF \/ ~period.open.present \/ ~period.close.present
          \/ period.open.time = Absent \/ period.close.time = Absent
  THEN "next"
  ELSE LET openDay  == period.open.day   openTime  == period.open.time
           closeDay == period.close.day  closeTime == period.close.time
       IN  IF openDay = requestDayOfWeek /\ closeDay = requestDayOfWeek
           THEN IF requestTime >= openTime /\ requestTime < closeTime
                THEN "open" ELSE "next"
           ELSE IF closeDay = (openDay + 1) % 7
           THEN IF \/ requestDayOfWeek = openDay /\ requestTime >= openTime
                   \/ requestDayOfWeek = closeDay /\ requestTime < closeTime
                THEN "open" ELSE "next"
           ELSE "next"

isRestaurantOpenAt(opening_hours, date, time, timeZoneId) ==
  IF ~opening_hours.present \/ ~opening_hours.has_periods THEN TRUE
  ELSE IF ~TimeParses(time) THEN FALSE
  ELSE LET d == RequestDayOfWeek(date, time, timeZoneId)
           t == RequestTime(time, timeZoneId)
       IN  \E i \in 1..Len(opening_hours.periods) :
             PeriodVerdict(opening_hours.periods[i], d, t) = "open"

\* ------------------------------------------------------ eligibility (4.1)
hardExclusions == {"fast_food", "meal_takeaway", "meal_delivery"}

\* isEligibleForReservation without the phone-number test of line 146.
isEligibleWithoutPhone(place) ==
  IF ~place.has_types \/ place.business_status = "" \/ place.vicinity = ""
  THEN FALSE
  ELSE IF place.business_status # "OPERATIONAL" \/ place.permanently_closed
  THEN FALSE
  ELSE IF "restaurant" \notin place.types THEN FALSE
  ELSE IF place.types \cap hardExclusions # {} THEN FALSE
  ELSE TRUE

isEligibleForReservation(place) ==
  IF \/ ~place.has_types \/ place.business_status = ""
     \/ place.vicinity = "" \/ place.international_phone_number = ""
  THEN FALSE
  ELSE IF place.business_status # "OPERATIONAL" \/ place.permanently_closed
  THEN FALSE
  ELSE IF "restaurant" \notin place.types THEN FALSE
  ELSE IF place.types \cap hardExclusions # {} THEN FALSE
  ELSE TRUE

\* ------------------------------------------------------------ the inputs
Sun == 0
Mon == 1

Place(id, phone, rating, types, hours) ==
  [place_id |-> id, name |-> id, international_phone_number |-> phone,
   rating |-> rating, has_types |-> TRUE, types |-> types,
   business_status |-> "OPERATIONAL", vicinity |-> "Main St",
   permanently_closed |-> FALSE, opening_hours |-> hours]

\* What the text search can return, in discovery order.
PlacePool ==
  << Place("p1", "+1001", 3, {"restaurant", "food"},
           Hours(<<Period(At(Sun, 1800), At(Mon, 200)),
                   Period(At(Mon, 900), At(Mon, 2200))>>)),
     Place("p2", "+1002", 5, {"restaurant"}, NoHours),
     Place("p3", "+1003", 4, {"restaurant", "bar"},
           Hours(<<Period(At(Mon, 900), At(Mon, 1200))>>)),
     Place("p4", "+1004", 5, {"restaurant", "fast_food"}, NoHours) >>

\* The subsequence of PlacePool at the indices in S.
RECURSIVE PoolSeq(_, _)
PoolSeq(S, i) ==
  IF i > Len(PlacePool) THEN <<>>
  ELSE (IF i \in S THEN <<PlacePool[i]>> ELSE <<>>) \o PoolSeq(S, i + 1)

SearchResults ==
  {PoolSeq(S, 1) : S \in {T \in SUBSET (1..Len(PlacePool)) : Cardinality(T) <= MaxPlaces}}

\* The body of POST /restaurants/search_and_call.
Request(intent, time, max_calls) ==
  [cuisine |-> "thai", location |-> "Denver", party_size |-> 2, date |-> Mon,
   has_date |-> TRUE, time |-> time, intent |-> intent, max_calls |-> max_calls,
   timeZoneId |-> 0]

Requests ==
  { Request("specific_time", 2130, 1),
    Request("specific_time", 2130, 3),
    Request("next_available", Absent, 1),
    Request("specific_time", Absent, 1),
    [Request("specific_time", 2130, 1) EXCEPT !.location = ""] }

\* ------------------------------------------------------- ranking (4.3)
RatingOr0(place) == IF place.rating = Absent THEN 0 ELSE place.rating

\* Insert p behind every element whose rating is at least p's: what a stable
\* sort by (b.rating || 0) - (a.rating || 0) does with the next element.
\* InsertByRating putting p before the elements of its own rating.
RECURSIVE InsertBeforeEqual(_, _)
InsertBeforeEqual(sorted, p) ==
  IF sorted = <<>> THEN <<p>>
  ELSE IF RatingOr0(Head(sorted)) > RatingOr0(p)
       THEN <<Head(sorted)>> \o InsertBeforeEqual(Tail(sorted), p)
       ELSE <<p>> \o sorted

RECURSIVE InsertByRating(_, _)
InsertByRating(sorted, p) ==
  IF sorted = <<>> THEN <<p>>
  ELSE IF RatingOr0(Head(sorted)) >= RatingOr0(p)
       THEN <<Head(sorted)>> \o InsertByRating(Tail(sorted), p)
       ELSE <<p>> \o sorted

RECURSIVE SortByRating(_)
SortByRating(s) ==
  IF s = <<>> THEN <<>>
  ELSE InsertByRating(SortByRating(SubSeq(s, 1, Len(s) - 1)), s[Len(s)])

\* getAndRankPlaceDetails without the registry test of line 432.
getAndRankPlaceDetailsAnyPhone(places, limit, doNotCallList) ==
  LET Keep(place) == place.place_id # "" /\ isEligibleForReservation(place)
  IN  Slice(SortByRating(SelectSeq(places, Keep)), 0, limit)

getAndRankPlaceDetails(places, limit, doNotCallList) ==
  LET Keep(place) == /\ place.place_id # ""
                     /\ isEligibleForReservation(place)
                     /\ place.international_phone_number \notin doNotCallList
      detailedPlaces == SelectSeq(places, Keep)
  IN  Slice(SortByRating(detailedPlaces), 0, limit)

\* The open-hours filter both routes apply for intent specific_time.
OpenPlaces(places, query) ==
  LET Open(p) == isRestaurantOpenAt(p.opening_hours, query.date, query.time,
                                    query.timeZoneId)
  IN  IF query.intent = "specific_time" THEN SelectSeq(places, Open) ELSE places

\* ------------------------------------------------------------- the state
VARIABLES
  batches,                \* batches collection: batchId -> document
  all_restaurants_found,  \* batchId -> its sub-collection, ordered by rank
  calls,                  \* calls collection: call id -> document
  dnc,                    \* dnc collection: the phone numbers (document ids)
  placed,                 \* call ids whose placement request telnyx accepted
  searchReq,              \* the search_and_call request in flight
  moreReqs,               \* the search_more requests in flight
  statusReq,              \* the GET /status request in flight
  handlers,               \* the webhook deliveries being processed
  commands,               \* <<call id, command>> issued to call control
  issued,                 \* the command the last step issued, or NoCommand
  response,               \* the HTTP response the last step sent, or NoResponse
  accepted,               \* requests accepted so far, by route
  evaluation,             \* the call of a pure helper under evaluation
  pollTimer,              \* app.js: the global pollTimer (0 for null)
  intervals,              \* app.js: the intervals set and not cleared, id -> batch polled
  pending,                \* app.js: handleSearchSubmit / handleSearchMore awaiting fetch
  polls                   \* app.js: pollForResults callbacks awaiting fetch

\* The state of the client (app.js).
clientVars == <<pollTimer, intervals, pending, polls>>

vars == <<batches, all_restaurants_found, calls, dnc, placed, searchReq,
          moreReqs, statusReq, handlers, commands, issued, response, accepted,
          evaluation, clientVars>>

Idle       == [pc |-> "idle"]
NoCommand  == <<>>
NoResponse == [route |-> "none"]
NoEvaluation == [fn |-> "none"]

BatchIds == 1..Len(batches)
CallIds  == 1..Len(calls)

Terminal(status) == status \in {"completed", "failed"}

CallsOf(batchId) == {c \in CallIds : calls[c].batchId = batchId}

\* The server after start-up: empty collections, nothing in flight.
Started ==
  /\ batches = <<>>
  /\ all_restaurants_found = <<>>
  /\ calls = <<>>
  /\ dnc = {}
  /\ placed = {}
  /\ searchReq = Idle
  /\ moreReqs = [i \in 1..MaxMoreOpen |-> Idle]
  /\ statusReq = Idle
  /\ handlers = [i \in 1..MaxHandlers |-> Idle]
  /\ commands = {}
  /\ issued = NoCommand
  /\ response = NoResponse
  /\ accepted = [search |-> 0, more |-> 0, status |-> 0, events |-> 0]
  /\ pollTimer = 0
  /\ intervals = <<>>
  /\ pending = [k \in 1..MaxPending |-> Idle]
  /\ polls = [k \in 1..MaxPolls |-> Idle]

Init == Started /\ evaluation = NoEvaluation

\* ------------------------------------------------------- startBatchCall
\* One call document per restaurant, then the placement request; `failing`
\* are the positions whose placement request telnyx rejects.
NewCall(restaurant, query, batchId, fails) ==
  [batchId |-> batchId,
   restaurantName |-> restaurant.name,
   phone |-> restaurant.international_phone_number,
   status |-> IF fails THEN "failed" ELSE "initiated",
   query |-> query,
   raw |-> "",
   result |-> [outcome |-> IF fails THEN "no_reservation_line" ELSE "pending",
               ai_summary |-> IF fails THEN "Failed to initiate the call"
                              ELSE "Call is being initiated.",
               credit_card_required |-> FALSE]]

\* startBatchCall giving up at the first placement request that fails: the
\* restaurants behind it get no call document and no placement request.
startBatchCallAborts(restaurantsToCall, query, batchId, ngrokUrl, failing) ==
  LET here == failing \cap (1..Len(restaurantsToCall))
      n == IF here = {} THEN Len(restaurantsToCall)
           ELSE CHOOSE i \in here : \A j \in here : i <= j
  IN  IF ngrokUrl = ""
      THEN UNCHANGED <<calls, placed>>
      ELSE /\ calls' = calls \o [i \in 1..n |->
                                   NewCall(restaurantsToCall[i], query, batchId, i \in failing)]
           /\ placed' = placed \cup {Len(calls) + i : i \in (1..n) \ failing}

\* `if (!ngrokUrl) return` (450-453): without a public URL nothing is written
\* and nothing is placed.
startBatchCall(restaurantsToCall, query, batchId, ngrokUrl, failing) ==
  IF ngrokUrl = ""
  THEN UNCHANGED <<calls, placed>>
  ELSE /\ calls' = calls \o [i \in 1..Len(restaurantsToCall) |->
                               NewCall(restaurantsToCall[i], query, batchId, i \in failing)]
       /\ placed' = placed \cup {Len(calls) + i : i \in (1..Len(restaurantsToCall)) \ failing}

\* What a step that sends no command and no response leaves behind.
Silent == issued' = NoCommand /\ response' = NoResponse

\* The batch ids a client has been given: search_and_call has responded.
Known(b) == b \in BatchIds /\ ~(searchReq.pc # "idle" /\ searchReq.batchId = b)

UnknownBatch == 0

\* ------------------------------------- POST /restaurants/search_and_call
\* RequestComplete without the party_size test of line 506.
RequestCompleteAnyParty(req) ==
  /\ req.cuisine # "" /\ req.location # "" /\ req.has_date
  /\ ~(req.intent = "specific_time" /\ req.time = Absent)

RequestComplete(req) ==
  /\ req.cuisine # "" /\ req.location # "" /\ req.party_size # 0 /\ req.has_date
  /\ ~(req.intent = "specific_time" /\ req.time = Absent)

QueryOf(req) ==
  [intent |-> req.intent, cuisine |-> req.cuisine, party_size |-> req.party_size,
   date |-> req.date, time |-> req.time, location |-> req.location,
   timeZoneId |-> req.timeZoneId]

\* Validation, the lookups, ranking and the open-hours filter (498-556).
SearchAndCall(req, places) ==
  /\ searchReq = Idle
  /\ LET actualMaxCalls == Min(req.max_calls, MAX_CALLS_HARD)
         query == QueryOf(req)
         detailedPlaces == getAndRankPlaceDetails(places, RANK_LIMIT, dnc)
         filteredPlaces == OpenPlaces(detailedPlaces, query)
     IN  IF ~RequestComplete(req)
         THEN /\ response' = [route |-> "search_and_call", code |-> 400]
              /\ UNCHANGED <<searchReq, accepted>>
         ELSE IF places = <<>> \/ detailedPlaces = <<>> \/ filteredPlaces = <<>>
         THEN /\ response' = [route |-> "search_and_call", code |-> 404]
              /\ UNCHANGED <<searchReq, accepted>>
         ELSE /\ searchReq' = [pc |-> "set", batchId |-> Len(batches) + 1,
                               query |-> query, detailedPlaces |-> detailedPlaces,
                               restaurantsToCall |-> SliceTo(filteredPlaces, actualMaxCalls)]
              /\ accepted' = [accepted EXCEPT !.search = @ + 1]
              /\ response' = NoResponse
  /\ issued' = NoCommand
  /\ UNCHANGED <<clientVars, evaluation, batches, all_restaurants_found, calls, dnc, placed, moreReqs,
                 statusReq, handlers, commands>>

\* batchRef.set (558-568)
BatchSet ==
  /\ searchReq.pc = "set"
  /\ batches' = Append(batches,
                  [status |-> "calling", query |-> searchReq.query, called_count |-> 0,
                   all_restaurants_found_count |-> Len(searchReq.detailedPlaces)])
  /\ all_restaurants_found' = Append(all_restaurants_found, <<>>)
  /\ searchReq' = [searchReq EXCEPT !.pc = "found"]
  /\ Silent
  /\ UNCHANGED <<clientVars, evaluation, calls, dnc, placed, moreReqs, statusReq, handlers, commands, accepted>>

\* the all_restaurants_found documents, rank = index (570-575)
BatchFound ==
  /\ searchReq.pc = "found"
  /\ all_restaurants_found' =
       [all_restaurants_found EXCEPT ![searchReq.batchId] = searchReq.detailedPlaces]
  /\ searchReq' = [searchReq EXCEPT !.pc = "dial"]
  /\ Silent
  /\ UNCHANGED <<clientVars, evaluation, batches, calls, dnc, placed, moreReqs, statusReq, handlers,
                 commands, accepted>>

\* await startBatchCall(...) (577)
BatchDial(ngrokUrl, failing) ==
  /\ searchReq.pc = "dial"
  /\ failing \subseteq 1..Len(searchReq.restaurantsToCall)
  /\ startBatchCall(searchReq.restaurantsToCall, searchReq.query, searchReq.batchId,
                    ngrokUrl, failing)
  /\ searchReq' = [searchReq EXCEPT !.pc = "update"]
  /\ Silent
  /\ UNCHANGED <<clientVars, evaluation, batches, all_restaurants_found, dnc, moreReqs, statusReq, handlers,
                 commands, accepted>>

\* batchRef.update({called_count}) and the response (578-587)
BatchUpdate ==
  /\ searchReq.pc = "update"
  /\ batches' = [batches EXCEPT ![searchReq.batchId].called_count =
                                   Len(searchReq.restaurantsToCall)]
  /\ response' = [route |-> "search_and_call", code |-> 200,
                  batchId |-> searchReq.batchId,
                  restaurants |-> searchReq.restaurantsToCall]
  /\ searchReq' = Idle
  /\ issued' = NoCommand
  /\ UNCHANGED <<clientVars, evaluation, all_restaurants_found, calls, dnc, placed, moreReqs, statusReq,
                 handlers, commands, accepted>>

\* --------------------------------------- POST /restaurants/search_more
FreeSlot(procs) ==
  IF \E i \in DOMAIN procs : procs[i] = Idle
  THEN CHOOSE i \in DOMAIN procs : procs[i] = Idle /\ \A j \in 1..(i - 1) : procs[j] # Idle
  ELSE 0

\* batchRef.get() and the read of query and called_count (600-609)
SearchMore(batchId) ==
  /\ FreeSlot(moreReqs) # 0
  /\ Known(batchId) \/ batchId = UnknownBatch
  /\ accepted' = [accepted EXCEPT !.more = @ + 1]
  /\ IF batchId \notin BatchIds
     THEN /\ response' = [route |-> "search_more", code |-> 404]
          /\ UNCHANGED moreReqs
     ELSE /\ moreReqs' = [moreReqs EXCEPT ![FreeSlot(moreReqs)] =
                            [pc |-> "list", batchId |-> batchId,
                             query |-> batches[batchId].query,
                             called_count |-> batches[batchId].called_count]]
          /\ response' = NoResponse
  /\ issued' = NoCommand
  /\ UNCHANGED <<clientVars, evaluation, batches, all_restaurants_found, calls, dnc, placed, searchReq,
                 statusReq, handlers, commands>>

\* MoreList without the open-hours filter of lines 620-625.
MoreListKeepsClosed(i) ==
  /\ moreReqs[i].pc = "list"
  /\ LET r == moreReqs[i]
         nextRestaurantsToFilter ==
           Slice(all_restaurants_found[r.batchId], r.called_count,
                 r.called_count + MAX_CALLS_DEFAULT)
     IN  IF nextRestaurantsToFilter = <<>>
         THEN /\ response' = [route |-> "search_more", code |-> 404]
              /\ moreReqs' = [moreReqs EXCEPT ![i] = Idle]
         ELSE /\ moreReqs' = [moreReqs EXCEPT ![i] =
                   [pc |-> "dial", batchId |-> r.batchId, query |-> r.query,
                    called_count |-> r.called_count,
                    nextRestaurantsToCall |-> nextRestaurantsToFilter]]
              /\ response' = NoResponse
  /\ issued' = NoCommand
  /\ UNCHANGED <<clientVars, evaluation, batches, all_restaurants_found, calls, dnc, placed, searchReq,
                 statusReq, handlers, commands, accepted>>

\* the next slice of the stored list and its open-hours filter (611-634)
MoreList(i) ==
  /\ moreReqs[i].pc = "list"
  /\ LET r == moreReqs[i]
         nextRestaurantsToFilter ==
           Slice(all_restaurants_found[r.batchId], r.called_count,
                 r.called_count + MAX_CALLS_DEFAULT)
         nextRestaurantsToCall == OpenPlaces(nextRestaurantsToFilter, r.query)
     IN  IF nextRestaurantsToFilter = <<>> \/ nextRestaurantsToCall = <<>>
         THEN /\ response' = [route |-> "search_more", code |-> 404]
              /\ moreReqs' = [moreReqs EXCEPT ![i] = Idle]
         ELSE /\ moreReqs' = [moreReqs EXCEPT ![i] =
                   [pc |-> "dial", batchId |-> r.batchId, query |-> r.query,
                    called_count |-> r.called_count,
                    nextRestaurantsToCall |-> nextRestaurantsToCall]]
              /\ response' = NoResponse
  /\ issued' = NoCommand
  /\ UNCHANGED <<clientVars, evaluation, batches, all_restaurants_found, calls, dnc, placed, searchReq,
                 statusReq, handlers, commands, accepted>>

\* await startBatchCall(...) (636)
MoreDial(i, ngrokUrl, failing) ==
  /\ moreReqs[i].pc = "dial"
  /\ failing \subseteq 1..Len(moreReqs[i].nextRestaurantsToCall)
  /\ startBatchCall(moreReqs[i].nextRestaurantsToCall, moreReqs[i].query,
                    moreReqs[i].batchId, ngrokUrl, failing)
  /\ moreReqs' = [moreReqs EXCEPT ![i].pc = "update"]
  /\ Silent
  /\ UNCHANGED <<clientVars, evaluation, batches, all_restaurants_found, dnc, searchReq, statusReq, handlers,
                 commands, accepted>>

\* MoreUpdate with the defect of consuming the stored list: the page dialed
\* is removed from all_restaurants_found.
MoreUpdateConsumes(i) ==
  /\ moreReqs[i].pc = "update"
  /\ batches' = [batches EXCEPT ![moreReqs[i].batchId] =
                   [@ EXCEPT !.called_count =
                               moreReqs[i].called_count + Len(moreReqs[i].nextRestaurantsToCall),
                             !.status = "calling"]]
  /\ all_restaurants_found' =
       [all_restaurants_found EXCEPT ![moreReqs[i].batchId] =
          SelectSeq(@, LAMBDA p : p \notin Range(moreReqs[i].nextRestaurantsToCall))]
  /\ response' = [route |-> "search_more", code |-> 200,
                  batchId |-> moreReqs[i].batchId,
                  restaurants |-> moreReqs[i].nextRestaurantsToCall]
  /\ moreReqs' = [moreReqs EXCEPT ![i] = Idle]
  /\ issued' = NoCommand
  /\ UNCHANGED <<clientVars, evaluation, calls, dnc, placed, searchReq, statusReq, handlers, commands, accepted>>

\* batchRef.update({called_count, status}) and the response (637-650)
MoreUpdate(i) ==
  /\ moreReqs[i].pc = "update"
  /\ batches' = [batches EXCEPT ![moreReqs[i].batchId] =
                   [@ EXCEPT !.called_count =
                               moreReqs[i].called_count + Len(moreReqs[i].nextRestaurantsToCall),
                             !.status = "calling"]]
  /\ response' = [route |-> "search_more", code |-> 200,
                  batchId |-> moreReqs[i].batchId,
                  restaurants |-> moreReqs[i].nextRestaurantsToCall]
  /\ moreReqs' = [moreReqs EXCEPT ![i] = Idle]
  /\ issued' = NoCommand
  /\ UNCHANGED <<clientVars, evaluation, all_restaurants_found, calls, dnc, placed, searchReq, statusReq,
                 handlers, commands, accepted>>

\* ------------------------------------------------ GET /status/:batchId
finalStates == {"completed", "failed", "machine_detected", "opt_out",
                "no_reservation_line", "booked", "other"}

\* items.filter(item => finalStates.includes(item.result.outcome)).length (681)
finishedCallCount(items) ==
  Cardinality({c \in DOMAIN items : items[c].result.outcome \in finalStates})

\* (finishedCallCount >= calledCount) && (calledCount > 0) (682)
isDone(items, calledCount) ==
  finishedCallCount(items) >= calledCount /\ calledCount > 0

\* db.collection('calls').where('batchId', '==', batchId).get() (665)
Status(batchId) ==
  /\ statusReq = Idle
  /\ Known(batchId) \/ batchId = UnknownBatch
  /\ statusReq' = [pc |-> "batch", batchId |-> batchId,
                   items |-> [c \in CallsOf(batchId) |-> calls[c]]]
  /\ accepted' = [accepted EXCEPT !.status = @ + 1]
  /\ Silent
  /\ UNCHANGED <<clientVars, evaluation, batches, all_restaurants_found, calls, dnc, placed, searchReq,
                 moreReqs, handlers, commands>>

\* StatusBatch without the not-found test of line 667.
StatusBatchAlwaysFound ==
  /\ statusReq.pc = "batch"
  /\ LET b == statusReq.batchId
         items == statusReq.items
         exists == b \in BatchIds
         batchStatus == IF exists THEN batches[b].status ELSE "calling"
         calledCount == IF exists THEN batches[b].called_count ELSE 0
         done == isDone(items, calledCount)
     IN  IF done /\ batchStatus # "completed" /\ exists
         THEN /\ statusReq' = [statusReq EXCEPT !.pc = "update"]
              /\ response' = NoResponse
         ELSE /\ response' = [route |-> "status", code |-> 200, batchId |-> b,
                              status |-> IF done THEN "completed" ELSE "calling",
                              items |-> items]
              /\ statusReq' = Idle
  /\ issued' = NoCommand
  /\ UNCHANGED <<clientVars, evaluation, batches, all_restaurants_found, calls, dnc, placed, searchReq,
                 moreReqs, handlers, commands, accepted>>

\* the batch document and the completion test (666-692)
StatusBatch ==
  /\ statusReq.pc = "batch"
  /\ LET b == statusReq.batchId
         items == statusReq.items
         exists == b \in BatchIds
         batchStatus == IF exists THEN batches[b].status ELSE "calling"
         calledCount == IF exists THEN batches[b].called_count ELSE 0
         done == isDone(items, calledCount)
     IN  IF ~exists /\ DOMAIN items = {}
         THEN /\ response' = [route |-> "status", code |-> 404]
              /\ statusReq' = Idle
         ELSE IF done /\ batchStatus # "completed" /\ exists
         THEN /\ statusReq' = [statusReq EXCEPT !.pc = "update"]
              /\ response' = NoResponse
         ELSE /\ response' = [route |-> "status", code |-> 200, batchId |-> b,
                              status |-> IF done THEN "completed" ELSE "calling",
                              items |-> items]
              /\ statusReq' = Idle
  /\ issued' = NoCommand
  /\ UNCHANGED <<clientVars, evaluation, batches, all_restaurants_found, calls, dnc, placed, searchReq,
                 moreReqs, handlers, commands, accepted>>

\* StatusUpdate answering with the status it read instead of the one it wrote
\* (without the assignment of line 685).
StatusUpdateReportsStale ==
  /\ statusReq.pc = "update"
  /\ batches' = [batches EXCEPT ![statusReq.batchId].status = "completed"]
  /\ response' = [route |-> "status", code |-> 200, batchId |-> statusReq.batchId,
                  status |-> batches[statusReq.batchId].status,
                  items |-> statusReq.items]
  /\ statusReq' = Idle
  /\ issued' = NoCommand
  /\ UNCHANGED <<clientVars, evaluation, all_restaurants_found, calls, dnc, placed, searchReq, moreReqs,
                 handlers, commands, accepted>>

\* update({status: 'completed'}) and the response (687-698)
StatusUpdate ==
  /\ statusReq.pc = "update"
  /\ batches' = [batches EXCEPT ![statusReq.batchId].status = "completed"]
  /\ response' = [route |-> "status", code |-> 200, batchId |-> statusReq.batchId,
                  status |-> "completed", items |-> statusReq.items]
  /\ statusReq' = Idle
  /\ issued' = NoCommand
  /\ UNCHANGED <<clientVars, evaluation, all_restaurants_found, calls, dnc, placed, searchReq, moreReqs,
                 handlers, commands, accepted>>

\* ------------------------------------------------- POST /voice/webhook
EventTypes == {"call.initiated", "call.answered", "call.amd.detection_ended",
               "call.record.stopped", "call.hangup"}

AmdResults == {"machine_greeting_ended", "beep_detected", "human_detected", "not_sure"}

MachineResults == {"machine_greeting_ended", "silence_detected", "beep_detected"}

\* What the classifier may reply (the parsed JSON before normalisation).
NluReplies ==
  { [outcome |-> "available", ai_summary |-> "They have a table.", credit_card_required |-> FALSE],
    [outcome |-> "opt_out", ai_summary |-> "Asked not to be called.", credit_card_required |-> FALSE],
    [outcome |-> "", ai_summary |-> "", credit_card_required |-> TRUE] }

\* getNluResult's normalisation of the reply (359-369)
NormalizeNlu(reply) ==
  LET outcome == IF reply.outcome = "" THEN "other" ELSE reply.outcome
      summary == IF reply.ai_summary = "" THEN "Could not determine outcome."
                 ELSE reply.ai_summary
      card    == IF outcome = "credit_card_required" THEN TRUE
                 ELSE reply.credit_card_required = TRUE
  IN  [outcome |-> outcome, ai_summary |-> summary,
       credit_card_required |->
         IF outcome \in {"available", "alternative_offered", "credit_card_required"}
         THEN card ELSE FALSE]

\* A classifier call or a JSON.parse that throws.
NluThrows == [outcome |-> "", ai_summary |-> "", credit_card_required |-> FALSE,
              throws |-> TRUE]

\* getNluResult's catch branch (370-377)
NluFallback ==
  [outcome |-> "other", ai_summary |-> "Failed to parse the call outcome.",
   credit_card_required |-> FALSE]

\* The events telnyx can have produced for a call: every event follows the
\* placement of the call, a detection result follows amd_start, a
\* recording-stopped event follows the start of a recording.
CanDeliver(c, type) ==
  /\ c \in placed
  /\ type = "call.amd.detection_ended" => <<c, "amd_start">> \in commands
  /\ type = "call.record.stopped" =>
       <<c, "record_start">> \in commands \/ <<c, "record_start_answer">> \in commands

\* Deliver without the res.status(200).send() of line 718.
DeliverUnacknowledged(c, type, result) ==
  /\ FreeSlot(handlers) # 0
  /\ c \in CallIds /\ CanDeliver(c, type)
  /\ type = "call.amd.detection_ended" \/ result = ""
  /\ handlers' = [handlers EXCEPT ![FreeSlot(handlers)] =
                    [pc |-> "get", call |-> c, type |-> type, result |-> result,
                     status |-> ""]]
  /\ accepted' = [accepted EXCEPT !.events = @ + 1]
  /\ response' = NoResponse
  /\ issued' = NoCommand
  /\ UNCHANGED <<clientVars, evaluation, batches, all_restaurants_found, calls, dnc, placed, searchReq,
                 moreReqs, statusReq, commands>>

\* The acknowledgement and the payload checks (717-726)
Deliver(c, type, result) ==
  /\ FreeSlot(handlers) # 0
  /\ c \in CallIds /\ CanDeliver(c, type)
  /\ type = "call.amd.detection_ended" \/ result = ""
  /\ handlers' = [handlers EXCEPT ![FreeSlot(handlers)] =
                    [pc |-> "get", call |-> c, type |-> type, result |-> result,
                     status |-> ""]]
  /\ accepted' = [accepted EXCEPT !.events = @ + 1]
  /\ response' = [route |-> "webhook", code |-> 200]
  /\ issued' = NoCommand
  /\ UNCHANGED <<clientVars, evaluation, batches, all_restaurants_found, calls, dnc, placed, searchReq,
                 moreReqs, statusReq, commands>>

\* A call-control id that is the id of no document of the calls collection.
UnknownCall == 0

\* What a delivery that is not an event of a known call can be: a body
\* without `data`, event data without a payload or a call_control_id, a
\* call_control_id that matches no document.
MalformedKinds == {"no_data", "no_id", "unknown_call"}

\* The acknowledgement and the payload checks (717-726) for such a delivery.
\* no_data: event is undefined and `event.event_type` (720) throws outside
\* the try of 728, so the promise of the async handler rejects; no_id: the
\* return of 722-725; unknown_call: on to callRef.get().
DeliverMalformed(kind) ==
  /\ kind \in MalformedKinds
  /\ kind = "no_id" \/ FreeSlot(handlers) # 0
  /\ handlers' =
       CASE kind = "no_data" ->
              [handlers EXCEPT ![FreeSlot(handlers)] = [pc |-> "rejected"]]
         [] kind = "no_id" -> handlers
         [] kind = "unknown_call" ->
              [handlers EXCEPT ![FreeSlot(handlers)] =
                 [pc |-> "get", call |-> UnknownCall, type |-> "call.hangup",
                  result |-> "", status |-> ""]]
  /\ accepted' = [accepted EXCEPT !.events = @ + 1]
  /\ response' = [route |-> "webhook", code |-> 200]
  /\ issued' = NoCommand
  /\ UNCHANGED <<clientVars, evaluation, batches, all_restaurants_found, calls, dnc, placed, searchReq,
                 moreReqs, statusReq, commands>>

\* The rejection of a handler's promise reaches the process: nothing in
\* index.js catches it or listens for unhandledRejection.  What the process
\* does depends on the Node version it runs on: it logs a warning and goes
\* on, or it terminates, and every request in flight ends where it is
\* (the stores and the calls already placed stay).
Unhandled(i, terminate) ==
  /\ handlers[i].pc = "rejected"
  /\ IF terminate
     THEN /\ handlers' = [j \in DOMAIN handlers |-> Idle]
          /\ searchReq' = Idle
          /\ moreReqs' = [j \in DOMAIN moreReqs |-> Idle]
          /\ statusReq' = Idle
     ELSE /\ handlers' = [handlers EXCEPT ![i] = Idle]
          /\ UNCHANGED <<searchReq, moreReqs, statusReq>>
  /\ Silent
  /\ UNCHANGED <<clientVars, evaluation, batches, all_restaurants_found, calls, dnc, placed, commands,
                 accepted>>

\* Where the handler goes after callData = callDoc.data() (738-838).
FirstStep(type, result, status) ==
  CASE type = "call.initiated" -> "answer"
    [] type = "call.answered" -> "in_progress"
    [] type = "call.amd.detection_ended" ->
         IF result \in MachineResults THEN "vm_speak"
         ELSE IF result = "human_detected" THEN "record_start" ELSE "speak"
    [] type = "call.record.stopped" ->
         IF status = "in_progress" THEN "nlu" ELSE "idle"
    [] type = "call.hangup" -> "final_get"
    [] OTHER -> "idle"

Goto(h, pc) == IF pc = "idle" THEN Idle ELSE [h EXCEPT !.pc = pc]

\* callRef.get() (729-736): no document for the id ends the handler.
HandlerGet(i) ==
  /\ handlers[i].pc = "get"
  /\ LET h == handlers[i]
     IN  IF h.call \notin CallIds
         THEN handlers' = [handlers EXCEPT ![i] = Idle]
         ELSE handlers' = [handlers EXCEPT ![i] =
                             Goto([h EXCEPT !.status = calls[h.call].status],
                                  FirstStep(h.type, h.result, calls[h.call].status))]
  /\ Silent
  /\ UNCHANGED <<clientVars, evaluation, batches, all_restaurants_found, calls, dnc, placed, searchReq,
                 moreReqs, statusReq, commands, accepted>>

\* The call-control command issued at each position and the position after it.
\* The fixed delays (763, 768, 779, 824) precede the command they delay.
CommandAt(pc) ==
  CASE pc = "answer"       -> "answer"
    [] pc = "amd_start"    -> "amd_start"
    [] pc = "vm_speak"     -> "speak_voicemail"
    [] pc = "vm_hangup"    -> "hangup"
    [] pc = "record_start" -> "record_start"
    [] pc = "record_stop"  -> "record_stop"
    [] pc = "dtmf"         -> "dtmf"
    [] pc = "speak"        -> "speak_question"
    [] pc = "record_answer" -> "record_start_answer"
    [] pc = "bye_speak"    -> "speak_goodbye"
    [] pc = "bye_hangup"   -> "hangup"

AfterCommand(pc, digit) ==
  CASE pc = "answer"       -> "idle"
    [] pc = "amd_start"    -> "idle"
    [] pc = "vm_speak"     -> "vm_update"
    [] pc = "vm_hangup"    -> "idle"
    [] pc = "record_start" -> "record_stop"
    [] pc = "record_stop"  -> IF digit # 0 THEN "dtmf" ELSE "speak"
    [] pc = "dtmf"         -> "speak"
    [] pc = "speak"        -> "record_answer"
    [] pc = "record_answer" -> "idle"
    [] pc = "bye_speak"    -> "bye_hangup"
    [] pc = "bye_hangup"   -> "idle"

CommandSteps == {"answer", "amd_start", "vm_speak", "vm_hangup", "record_start",
                 "record_stop", "dtmf", "speak", "record_answer", "bye_speak",
                 "bye_hangup"}

\* One awaited call-control command.  ok = FALSE: the command is rejected, the
\* await throws and the catch at 839 ends the handler.  digit is what
\* getDtmfDigit makes of the IVR recording (771-776), 0 for "no digit".
Command(i, ok, digit) ==
  /\ handlers[i].pc \in CommandSteps
  /\ digit = 0 \/ handlers[i].pc = "record_stop"
  /\ LET h == handlers[i]
     IN  IF ok
         THEN /\ commands' = commands \cup {<<h.call, CommandAt(h.pc)>>}
              /\ issued' = <<h.call, CommandAt(h.pc)>>
              /\ handlers' = [handlers EXCEPT ![i] = Goto(h, AfterCommand(h.pc, digit))]
         ELSE /\ UNCHANGED commands
              /\ issued' = NoCommand
              /\ handlers' = [handlers EXCEPT ![i] = Idle]
  /\ response' = NoResponse
  /\ UNCHANGED <<clientVars, evaluation, batches, all_restaurants_found, calls, dnc, placed, searchReq,
                 moreReqs, statusReq, accepted>>

\* AnsweredUpdate without the callRef.update of line 743.
AnsweredUpdateSkipped(i) ==
  /\ handlers[i].pc = "in_progress"
  /\ handlers' = [handlers EXCEPT ![i].pc = "amd_start"]
  /\ Silent
  /\ UNCHANGED <<clientVars, evaluation, batches, all_restaurants_found, calls, dnc, placed, searchReq,
                 moreReqs, statusReq, commands, accepted>>

\* call.answered: callRef.update({status: 'in_progress'}) (743)
AnsweredUpdate(i) ==
  /\ handlers[i].pc = "in_progress"
  /\ calls' = [calls EXCEPT ![handlers[i].call].status = "in_progress"]
  /\ handlers' = [handlers EXCEPT ![i].pc = "amd_start"]
  /\ Silent
  /\ UNCHANGED <<clientVars, evaluation, batches, all_restaurants_found, dnc, placed, searchReq, moreReqs,
                 statusReq, commands, accepted>>

\* machine detected: callRef.update after the voicemail is spoken (758-762)
VoicemailUpdate(i) ==
  /\ handlers[i].pc = "vm_update"
  /\ calls' = [calls EXCEPT ![handlers[i].call] =
                 [@ EXCEPT !.status = "completed",
                           !.result.outcome = "left_message",
                           !.result.ai_summary = "Left a voicemail with the request."]]
  /\ handlers' = [handlers EXCEPT ![i].pc = "vm_hangup"]
  /\ Silent
  /\ UNCHANGED <<clientVars, evaluation, batches, all_restaurants_found, dnc, placed, searchReq, moreReqs,
                 statusReq, commands, accepted>>

\* call.record.stopped for callData.status = in_progress: download,
\* transcription and classification, then callRef.update (803-813).
\* transcript = "" is the null of a failed download or transcription;
\* reply = NluThrows is a classifier call or JSON.parse that throws.
RecordingUpdate(i, transcript, reply) ==
  /\ handlers[i].pc = "nlu"
  /\ LET nluResult == IF reply = NluThrows THEN NluFallback ELSE NormalizeNlu(reply)
     IN  /\ calls' = [calls EXCEPT ![handlers[i].call] =
                        [@ EXCEPT !.status = "completed", !.raw = transcript,
                                  !.result = nluResult]]
         /\ handlers' = [handlers EXCEPT ![i].pc =
                           IF nluResult.outcome = "opt_out" THEN "dnc" ELSE "bye_speak"]
  /\ Silent
  /\ UNCHANGED <<clientVars, evaluation, batches, all_restaurants_found, dnc, placed, searchReq, moreReqs,
                 statusReq, commands, accepted>>

\* db.collection('dnc').doc(callData.phone).set(...) (815-821)
DncSet(i) ==
  /\ handlers[i].pc = "dnc"
  /\ dnc' = dnc \cup {calls[handlers[i].call].phone}
  /\ handlers' = [handlers EXCEPT ![i].pc = "bye_speak"]
  /\ Silent
  /\ UNCHANGED <<clientVars, evaluation, batches, all_restaurants_found, calls, placed, searchReq, moreReqs,
                 statusReq, commands, accepted>>

\* HangupGet without the status test: the update follows whatever was read.
HangupGetAlways(i) ==
  /\ handlers[i].pc = "final_get"
  /\ handlers' = [handlers EXCEPT ![i].pc = "hangup_update"]
  /\ Silent
  /\ UNCHANGED <<clientVars, evaluation, batches, all_restaurants_found, calls, dnc, placed, searchReq,
                 moreReqs, statusReq, commands, accepted>>

\* call.hangup: the second callRef.get() and its status test (829-831)
HangupGet(i) ==
  /\ handlers[i].pc = "final_get"
  /\ handlers' = [handlers EXCEPT ![i] =
                    IF calls[handlers[i].call].status \in {"initiated", "in_progress"}
                    THEN [handlers[i] EXCEPT !.pc = "hangup_update"] ELSE Idle]
  /\ Silent
  /\ UNCHANGED <<clientVars, evaluation, batches, all_restaurants_found, calls, dnc, placed, searchReq,
                 moreReqs, statusReq, commands, accepted>>

\* HangupUpdate closing the batch of the call as well.
HangupUpdateClosesBatch(i) ==
  /\ handlers[i].pc = "hangup_update"
  /\ calls' = [calls EXCEPT ![handlers[i].call] =
                 [@ EXCEPT !.status = "completed",
                           !.result.outcome = "no_reservation_line",
                           !.result.ai_summary =
                             "Call was hung up before a response was recorded."]]
  /\ batches' = [batches EXCEPT ![calls[handlers[i].call].batchId].status = "completed"]
  /\ handlers' = [handlers EXCEPT ![i] = Idle]
  /\ Silent
  /\ UNCHANGED <<clientVars, evaluation, all_restaurants_found, dnc, placed, searchReq, moreReqs,
                 statusReq, commands, accepted>>

\* call.hangup: callRef.update (832-836)
HangupUpdate(i) ==
  /\ handlers[i].pc = "hangup_update"
  /\ calls' = [calls EXCEPT ![handlers[i].call] =
                 [@ EXCEPT !.status = "completed",
                           !.result.outcome = "no_reservation_line",
                           !.result.ai_summary =
                             "Call was hung up before a response was recorded."]]
  /\ handlers' = [handlers EXCEPT ![i] = Idle]
  /\ Silent
  /\ UNCHANGED <<clientVars, evaluation, batches, all_restaurants_found, dnc, placed, searchReq, moreReqs,
                 statusReq, commands, accepted>>

\* ------------------------------------------- POST /restaurants/search_more
\* const { batchId } = req.body (600): a body without the member gives
\* undefined.
ReadBatchId(body) == IF "batchId" \in DOMAIN body THEN body.batchId ELSE Absent

\* The route from its request body: the test of line 601, then SearchMore.
SearchMoreRequest(body) ==
  IF ReadBatchId(body) = Absent
  THEN /\ accepted' = [accepted EXCEPT !.more = @ + 1]
       /\ response' = [route |-> "search_more", code |-> 400]
       /\ issued' = NoCommand
       /\ UNCHANGED <<clientVars, evaluation, batches, all_restaurants_found, calls, dnc,
                      placed, searchReq, moreReqs, statusReq, handlers, commands>>
  ELSE SearchMore(ReadBatchId(body))

\* ---------------------------------------------------------------- app.js
\* What a step of the client leaves alone: the server.
serverVars == <<batches, all_restaurants_found, calls, dnc, placed, searchReq, moreReqs,
                statusReq, handlers, commands, accepted, evaluation>>

\* The ids of the intervals that are set and not cleared.
Active == {t \in DOMAIN intervals : intervals[t].active}

\* clearInterval(timer); timer = 0 is the null the `if (pollTimer)` skips, and
\* clearing an interval that is not active changes nothing.
ClearInterval(timer) ==
  [t \in DOMAIN intervals |->
     IF t = timer THEN [intervals[t] EXCEPT !.active = FALSE] ELSE intervals[t]]

\* setInterval(() => pollForResults(batchId, ...), 2500): a new id.
SetInterval(ivs, batchId) == Append(ivs, [active |-> TRUE, batchId |-> batchId])

\* handleSearchSubmit up to its fetch (201-252).  valid = FALSE: one of the
\* form checks of 220-228 renders the form again and returns.
HandleSearchSubmit(valid) ==
  /\ FreeSlot(pending) # 0
  /\ intervals' = ClearInterval(pollTimer)
  /\ pending' = IF valid
                THEN [pending EXCEPT ![FreeSlot(pending)] =
                        [pc |-> "fetch", kind |-> "search", batchId |-> 0,
                         body |-> [intent |-> "specific_time"]]]
                ELSE pending
  /\ Silent
  /\ UNCHANGED <<pollTimer, polls, serverVars>>

\* handleSearchSubmit from the response of its fetch on (254-268); reply.ok =
\* FALSE is a response that is not ok or a fetch that throws.
SearchReplied(k, reply) ==
  /\ pending[k].pc = "fetch" /\ pending[k].kind = "search"
  /\ IF reply.ok
     THEN /\ intervals' = SetInterval(intervals, reply.batchId)
          /\ pollTimer' = Len(intervals) + 1
     ELSE UNCHANGED <<intervals, pollTimer>>
  /\ pending' = [pending EXCEPT ![k] = Idle]
  /\ Silent
  /\ UNCHANGED <<polls, serverVars>>

\* handleSearchMore up to its fetch (369-382)
HandleSearchMore(batchId) ==
  /\ FreeSlot(pending) # 0
  /\ intervals' = ClearInterval(pollTimer)
  /\ pending' = [pending EXCEPT ![FreeSlot(pending)] =
                   [pc |-> "fetch", kind |-> "more", batchId |-> batchId,
                    body |-> [original_batch_id |-> batchId]]]
  /\ Silent
  /\ UNCHANGED <<pollTimer, polls, serverVars>>

\* handleSearchMore from the response of its fetch on (384-394)
MoreReplied(k, reply) ==
  /\ pending[k].pc = "fetch" /\ pending[k].kind = "more"
  /\ IF reply.ok
     THEN /\ intervals' = SetInterval(intervals, reply.batchId)
          /\ pollTimer' = Len(intervals) + 1
     ELSE UNCHANGED <<intervals, pollTimer>>
  /\ pending' = [pending EXCEPT ![k] = Idle]
  /\ Silent
  /\ UNCHANGED <<polls, serverVars>>

\* An interval fires: pollForResults up to its fetch (274-276)
PollFire(t) ==
  /\ t \in Active
  /\ FreeSlot(polls) # 0
  /\ polls' = [polls EXCEPT ![FreeSlot(polls)] =
                 [pc |-> "fetch", timer |-> t, batchId |-> intervals[t].batchId]]
  /\ Silent
  /\ UNCHANGED <<pollTimer, intervals, pending, serverVars>>

\* What a status poll can come back with: a response that is not ok, a
\* status, or a fetch that throws.
PollOutcomes == {"not_ok", "calling", "completed", "throws"}

\* pollForResults from the response of its fetch on (277-301)
PollReplied(p, outcome) ==
  /\ polls[p].pc = "fetch"
  /\ outcome \in PollOutcomes
  /\ intervals' = IF outcome = "calling" THEN intervals ELSE ClearInterval(pollTimer)
  /\ polls' = [polls EXCEPT ![p] = Idle]
  /\ Silent
  /\ UNCHANGED <<pollTimer, pending, serverVars>>

\* ------------------------------------------------------ specifications
\* The requests in flight.
Busy(procs) == Cardinality({i \in DOMAIN procs : procs[i] # Idle})

\* The restaurants the coordinator request about to dial will dial.
Dialing(req) ==
  IF req.pc # "dial" THEN <<>>
  ELSE IF "restaurantsToCall" \in DOMAIN req THEN req.restaurantsToCall
  ELSE req.nextRestaurantsToCall

\* The coordinator's routes, for an environment that sends at most
\* env.batches searches out of env.requests x env.results, env.more
\* continuations (env.moreOpen of them at a time) and env.status status
\* polls, in a calls collection of at most env.calls documents.
Search(env) ==
  \/ /\ accepted.search < env.batches
     /\ \E req \in env.requests, places \in env.results : SearchAndCall(req, places)
  \/ BatchSet
  \/ BatchFound
  \/ /\ Len(calls) + Len(Dialing(searchReq)) <= env.calls
     /\ \E failing \in env.failing : BatchDial(NGROK_URL(env), failing)
  \/ BatchUpdate

More(env) ==
  \/ /\ accepted.more < env.more
     /\ Busy(moreReqs) < env.moreOpen
     /\ \E b \in BatchIds \cup env.unknown : SearchMore(b)
  \/ \E i \in 1..MaxMoreOpen : MoreList(i)
  \/ \E i \in 1..MaxMoreOpen :
       /\ Len(calls) + Len(Dialing(moreReqs[i])) <= env.calls
       /\ \E failing \in env.failing : MoreDial(i, NGROK_URL(env), failing)
  \/ \E i \in 1..MaxMoreOpen : MoreUpdate(i)

Poll(env) ==
  \/ /\ accepted.status < env.status
     /\ \E b \in BatchIds \cup env.unknown : Status(b)
  \/ StatusBatch
  \/ StatusUpdate

Coordinator(env) == Search(env) \/ More(env) \/ Poll(env)

\* The webhook route, for a provider that delivers at most env.events events,
\* env.handlers of them being processed at a time; a non-empty env.script
\* lists the only <<call, event type, detection result>> it delivers.
Arrive(env) ==
  /\ accepted.events < env.events
  /\ Busy(handlers) < env.handlers
  /\ \E c \in CallIds, type \in env.types, result \in env.amd \cup {""} :
       /\ env.script = {} \/ <<c, type, result>> \in env.script
       /\ Deliver(c, type, result)

\* The steps of the handlers after the acknowledgement.
Handle(env) ==
  \/ \E i \in 1..MaxHandlers : HandlerGet(i)
  \/ \E i \in 1..MaxHandlers, ok \in env.commandOk, digit \in env.digits :
       Command(i, ok, digit)
  \/ \E i \in 1..MaxHandlers : AnsweredUpdate(i)
  \/ \E i \in 1..MaxHandlers : VoicemailUpdate(i)
  \/ \E i \in 1..MaxHandlers, transcript \in env.transcripts, reply \in env.replies :
       RecordingUpdate(i, transcript, reply)
  \/ \E i \in 1..MaxHandlers : DncSet(i)
  \/ \E i \in 1..MaxHandlers : HangupGet(i)
  \/ \E i \in 1..MaxHandlers : HangupUpdate(i)

Webhook(env) == Arrive(env) \/ Handle(env)

\* Deliveries that are not an event of a known call, and what becomes of a
\* handler whose promise rejected.
Malformed(env) ==
  \/ /\ accepted.events < env.events
     /\ Busy(handlers) < env.handlers
     /\ \E kind \in env.malformed : DeliverMalformed(kind)
  \/ \E i \in 1..MaxHandlers, terminate \in BOOLEAN : Unhandled(i, terminate)

\* -- Spec: every route and every interleaving of their steps, for one search
\* over the whole pool (one call on the first page, the rest on the next).
MaxCalls   == 3   \* documents ever created in the calls collection
MaxBatches == 1   \* search_and_call requests accepted
MaxMore    == 1   \* search_more requests accepted
MaxEvents  == 3   \* webhook deliveries accepted
MaxStatus  == 1   \* status polls accepted

Env ==
  [NGROK_URL |-> PublicUrl,
   batches |-> MaxBatches,
   requests |-> {Request("specific_time", 2130, 1), Request("specific_time", Absent, 1),
                 [Request("specific_time", 2130, 1) EXCEPT !.location = ""]},
   results |-> {PlacePool, <<PlacePool[4]>>, <<>>},
   calls |-> MaxCalls, failing |-> SUBSET (1..MaxPlaces),
   more |-> MaxMore, moreOpen |-> MaxMoreOpen, unknown |-> {UnknownBatch},
   status |-> MaxStatus,
   events |-> MaxEvents, handlers |-> MaxHandlers, types |-> EventTypes, script |-> {},
   amd |-> AmdResults, commandOk |-> BOOLEAN, digits |-> {0, 1},
   transcripts |-> {"", "Yes we do."}, replies |-> NluReplies \cup {NluThrows}]

Next == Coordinator(Env) \/ Webhook(Env)

Spec == Init /\ [][Next]_vars

\* -- SpecPages: the coordinator's routes alone (no call is ever answered), for
\* every search result and request, continuations overlapping.
PagesMore   == 3   \* search_more requests accepted
PagesCalls  == 4   \* documents ever created in the calls collection
PagesStatus == 1   \* status polls accepted

EnvPages ==
  [NGROK_URL |-> PublicUrl,
   batches |-> MaxBatches, requests |-> Requests, results |-> SearchResults,
   calls |-> PagesCalls, failing |-> SUBSET (1..MaxPlaces),
   more |-> PagesMore, moreOpen |-> MaxMoreOpen, unknown |-> {UnknownBatch},
   status |-> PagesStatus]

NextPages == Coordinator(EnvPages)

SpecPages == Init /\ [][NextPages]_vars

\* -- SpecSequential: as SpecPages, one coordinator request at a time.
EnvSequential == [EnvPages EXCEPT !.moreOpen = 1]

NextSequential == Coordinator(EnvSequential)

SpecSequential == Init /\ [][NextSequential]_vars

\* -- SpecUnconfigured: the searches and continuations of SpecSequential, for a
\* process started with neither NGROK_URL nor PUBLIC_BASE_URL set (the
\* start-up only warns, 882-889).
EnvUnconfigured == [EnvSequential EXCEPT !.NGROK_URL = ""]

NextUnconfigured == Search(EnvUnconfigured) \/ More(EnvUnconfigured)

SpecUnconfigured == Init /\ [][NextUnconfigured]_vars

\* -- SpecStatus: as SpecSequential, with a second status poll, and no status
\* poll running while a search_and_call or a search_more is.
StatusPolls == 2   \* status polls accepted

EnvStatus == [EnvSequential EXCEPT !.status = StatusPolls]

NextStatus ==
  \/ statusReq = Idle /\ (Search(EnvStatus) \/ More(EnvStatus))
  \/ searchReq = Idle /\ Busy(moreReqs) = 0 /\ Poll(EnvStatus)

SpecStatus == Init /\ [][NextStatus]_vars

\* -- SpecScenario: one search that dials the three restaurants of the pool
\* (call 1 = p2, call 2 = p3, call 3 = p1), then the events of the scenario of
\* section 8, one handler at a time: call 1 is answered by a machine, call 2
\* by a human whose answer is recorded, call 3 is never answered; every call
\* ends with its hangup event.
ScenarioCalls  == 3   \* documents ever created in the calls collection
ScenarioEvents == 6   \* webhook deliveries accepted
ScenarioActive == 1   \* webhook deliveries being processed at the same time

EnvScenario ==
  [NGROK_URL |-> PublicUrl,
   batches |-> MaxBatches, requests |-> {Request("next_available", Absent, 3)},
   results |-> {PlacePool}, calls |-> ScenarioCalls, failing |-> {{}},
   unknown |-> {}, status |-> MaxStatus,
   events |-> ScenarioEvents, handlers |-> ScenarioActive, types |-> EventTypes,
   script |-> {<<1, "call.answered", "">>,
               <<1, "call.amd.detection_ended", "machine_greeting_ended">>,
               <<2, "call.answered", "">>,
               <<2, "call.amd.detection_ended", "human_detected">>,
               <<2, "call.record.stopped", "">>,
               <<3, "call.hangup", "">>, <<1, "call.hangup", "">>, <<2, "call.hangup", "">>},
   amd |-> AmdResults, commandOk |-> {TRUE}, digits |-> {0, 1},
   transcripts |-> {"Yes we do."}, replies |-> NluReplies]

NextScenario == Search(EnvScenario) \/ Poll(EnvScenario) \/ Webhook(EnvScenario)

SpecScenario == Init /\ [][NextScenario]_vars

\* -- SpecCalls: one search that dials a page of two restaurants (call 1 = p2,
\* call 2 = p3), either placement failing, then every event of call 1 in every
\* order, two deliveries being processed at a time.
CallsEvents == 4   \* webhook deliveries accepted

EnvCalls ==
  [NGROK_URL |-> PublicUrl,
   batches |-> MaxBatches, requests |-> {Request("next_available", Absent, 2)},
   results |-> {<<PlacePool[2], PlacePool[3]>>}, calls |-> 2,
   failing |-> SUBSET (1..2),
   events |-> CallsEvents, handlers |-> MaxHandlers, types |-> EventTypes,
   script |-> {<<1, type, result>> : type \in EventTypes,
                                     result \in {"", "not_sure", "beep_detected"}},
   amd |-> AmdResults, commandOk |-> {TRUE}, digits |-> {0},
   transcripts |-> {"Yes we do."}, replies |-> NluReplies]

NextCalls == Search(EnvCalls) \/ Webhook(EnvCalls)

SpecCalls == Init /\ [][NextCalls]_vars

\* -- SpecCallsFair: as SpecCalls, and a handler that has acknowledged its
\* delivery runs to its end: every await of a handler resolves or rejects.
SpecCallsFair == SpecCalls /\ WF_vars(Handle(EnvCalls))

\* -- SpecOptOut: two searches over the same two restaurants (ranked p2, p1),
\* dialing one or both of them, one continuation, and the events of the first
\* call of each batch (calls 1 and 3 when the second search dials both
\* restaurants), one delivery being processed at a time.
OptOutBatches == 2   \* search_and_call requests accepted
OptOutCalls   == 4   \* documents ever created in the calls collection
OptOutEvents  == 3   \* webhook deliveries accepted

EnvOptOut ==
  [NGROK_URL |-> PublicUrl,
   batches |-> OptOutBatches,
   requests |-> {Request("next_available", Absent, 1), Request("next_available", Absent, 2)},
   results |-> {<<PlacePool[1], PlacePool[2]>>}, calls |-> OptOutCalls,
   failing |-> {{}}, more |-> MaxMore, moreOpen |-> 1, unknown |-> {},
   events |-> OptOutEvents, handlers |-> 1, types |-> EventTypes,
   script |-> {<<c, type, result>> : c \in {1, 3}, type \in EventTypes,
                                     result \in {"", "not_sure", "beep_detected"}},
   amd |-> AmdResults, commandOk |-> {TRUE}, digits |-> {0},
   transcripts |-> {"Please stop calling."}, replies |-> NluReplies]

NextOptOut == Search(EnvOptOut) \/ More(EnvOptOut) \/ Webhook(EnvOptOut)

SpecOptOut == Init /\ [][NextOptOut]_vars

\* -- SpecHours: isRestaurantOpenAt applied once to opening hours, a requested
\* day of the week, a requested time and the zone the formatter shows it in.
Wed == 3
Sat == 6

OpeningHoursPool ==
  { NoHours, HoursNoPeriods, Hours(<<>>),
    Hours(<<Period(At(Mon, 900), At(Mon, 2200))>>),
    Hours(<<Period(At(Mon, 900), At(Mon, 1200)), Period(At(Mon, 1700), At(Mon, 2200))>>),
    Hours(<<Period(At(Sun, 1800), At(Mon, 200))>>),
    Hours(<<Period(At(Sat, 1800), At(Sun, 200))>>),
    Hours(<<Period(At(Sun, 0), NoTime)>>),
    Hours(<<Period(At(Wed, 0), NoTime)>>),
    Hours(<<Period(NoTime, NoTime), Period(At(Wed, 900), At(Wed, 2200))>>) }

\* "HH:mm" strings as HHMM; Absent is a string that is no time of day.
RequestTimes == {Absent, 0, 130, 859, 900, 1000, 1200, 2130, 2200, 2215, 2359}

\* Hours between UTC and the zone of timeZoneId (or of the server when the
\* request carries none): UTC itself and America/Denver, standard time.
Zones == {0, -7}

HoursCalls ==
  [fn : {"isRestaurantOpenAt"}, opening_hours : OpeningHoursPool, date : 0..6,
   time : RequestTimes, timeZoneId : Zones, done : {FALSE}, result : {FALSE}]

InitHours == Started /\ evaluation \in HoursCalls

EvaluateOpen ==
  /\ evaluation.fn = "isRestaurantOpenAt" /\ ~evaluation.done
  /\ evaluation' = [evaluation EXCEPT
                      !.done = TRUE,
                      !.result = isRestaurantOpenAt(evaluation.opening_hours, evaluation.date,
                                                    evaluation.time, evaluation.timeZoneId)]
  /\ UNCHANGED <<clientVars, batches, all_restaurants_found, calls, dnc, placed, searchReq,
                 moreReqs,
                 statusReq, handlers, commands, issued, response, accepted>>

NextHours == EvaluateOpen

SpecHours == InitHours /\ [][NextHours]_vars

\* -- SpecEligible: isEligibleForReservation applied, MaxRepeats times, to a
\* place details result with any of its fields missing.
MaxRepeats == 2   \* calls with the same place

PlaceDetails ==
  { place \in [place_id : {"p"}, name : {"p"}, rating : {4},
               opening_hours : {NoHours},
               has_types : BOOLEAN,
               types : SUBSET {"restaurant", "bar", "fast_food", "meal_takeaway",
                               "meal_delivery"},
               business_status : {"", "OPERATIONAL", "CLOSED_TEMPORARILY"},
               vicinity : {"", "Main St"},
               international_phone_number : {"", "+1001"},
               permanently_closed : BOOLEAN] :
      ~place.has_types => place.types = {} }

InitEligible ==
  /\ Started
  /\ evaluation \in [fn : {"isEligibleForReservation"}, place : PlaceDetails,
                      results : {<<>>}]

EvaluateEligible ==
  /\ evaluation.fn = "isEligibleForReservation"
  /\ Len(evaluation.results) < MaxRepeats
  /\ evaluation' = [evaluation EXCEPT
                      !.results = Append(@, isEligibleForReservation(evaluation.place))]
  /\ UNCHANGED <<clientVars, batches, all_restaurants_found, calls, dnc, placed, searchReq,
                 moreReqs,
                 statusReq, handlers, commands, issued, response, accepted>>

NextEligible == EvaluateEligible

SpecEligible == InitEligible /\ [][NextEligible]_vars

\* -- SpecSearch: one search_and_call with any of its parameters missing and
\* any max_calls, over no place or over CapPlaces eligible, open places.
CapPlaces == 10   \* places the text search returns

PlaceNames   == <<"r01", "r02", "r03", "r04", "r05", "r06", "r07", "r08", "r09", "r10", "r11">>
PlaceNumbers == <<"+2001", "+2002", "+2003", "+2004", "+2005", "+2006", "+2007", "+2008",
                  "+2009", "+2010", "+2011">>

ManyPlaces ==
  [i \in 1..CapPlaces |-> Place(PlaceNames[i], PlaceNumbers[i], 4, {"restaurant"}, NoHours)]

SearchRequests ==
  { [cuisine |-> cuisine, location |-> location, party_size |-> party_size,
     date |-> IF has_date THEN Mon ELSE Absent, has_date |-> has_date,
     time |-> time, intent |-> intent, max_calls |-> max_calls, timeZoneId |-> 0] :
      cuisine \in {"", "thai"}, location \in {"", "Denver"}, party_size \in {0, 2},
      has_date \in BOOLEAN, time \in {Absent, 2130},
      intent \in {"specific_time", "next_available"},
      max_calls \in {-1, 0, 1, MAX_CALLS_HARD, MAX_CALLS_HARD + 1} }

InitSearch ==
  /\ Started
  /\ evaluation \in [fn : {"search_and_call"}, request : SearchRequests]

NextSearch ==
  \/ /\ accepted.search < MaxBatches
     /\ evaluation.fn = "search_and_call"
     /\ \E places \in {<<>>, ManyPlaces} : SearchAndCall(evaluation.request, places)
  \/ BatchSet
  \/ BatchFound
  \/ BatchDial(PublicUrl, {})
  \/ BatchUpdate

SpecSearch == InitSearch /\ [][NextSearch]_vars

\* -- SpecPagination: one search for a specific time over a ranked list longer
\* than a page, any of its places open or closed at that time, and the
\* continuations that follow it, one at a time.
PaginationPlaces == 7   \* places the text search returns
PaginationMore   == 2   \* search_more requests accepted

OpenAtNight  == Hours(<<Period(At(Mon, 900), At(Mon, 2200))>>)
ClosedAtNight == Hours(<<Period(At(Mon, 900), At(Mon, 1200))>>)

PaginationResults ==
  { [i \in 1..PaginationPlaces |->
       Place(PlaceNames[i], PlaceNumbers[i], 4, {"restaurant"},
             IF i \in S THEN OpenAtNight ELSE ClosedAtNight)] :
      S \in SUBSET (1..PaginationPlaces) }

EnvPagination ==
  [NGROK_URL |-> PublicUrl,
   batches |-> MaxBatches,
   requests |-> {Request("specific_time", 2130, 1), Request("specific_time", 2130, 2)},
   results |-> PaginationResults,
   calls |-> 2 * PaginationPlaces, failing |-> {{}},
   more |-> PaginationMore, moreOpen |-> 1, unknown |-> {}]

NextPagination == Search(EnvPagination) \/ More(EnvPagination)

SpecPagination == Init /\ [][NextPagination]_vars

\* -- SpecRank: getAndRankPlaceDetails applied, MaxRepeats times, to up to
\* RankPlaces places of any rating (missing, 0, 3 or 5), eligible or not,
\* with any of the first two phone numbers in the registry, and any limit.
RankPlaces == 3   \* places the text search returns

RankInputs ==
  UNION { [1..n -> [rating : {Absent, 0, 3, 5},
                    types : {{"restaurant"}, {"restaurant", "fast_food"}}]] :
          n \in 0..RankPlaces }

RankedPlaces(input) ==
  [i \in DOMAIN input |->
     Place(PlaceNames[i], PlaceNumbers[i], input[i].rating, input[i].types, NoHours)]

InitRank ==
  /\ Started
  /\ \E input \in RankInputs :
       evaluation \in [fn : {"getAndRankPlaceDetails"}, places : {RankedPlaces(input)},
                       limit : {0, 1, 2, 20},
                       doNotCallList : SUBSET {PlaceNumbers[1], PlaceNumbers[2]},
                       results : {<<>>}]

EvaluateRank ==
  /\ evaluation.fn = "getAndRankPlaceDetails"
  /\ Len(evaluation.results) < MaxRepeats
  /\ evaluation' = [evaluation EXCEPT
                      !.results = Append(@, getAndRankPlaceDetails(evaluation.places,
                                                                   evaluation.limit,
                                                                   evaluation.doNotCallList))]
  /\ UNCHANGED <<clientVars, batches, all_restaurants_found, calls, dnc, placed, searchReq,
                 moreReqs,
                 statusReq, handlers, commands, issued, response, accepted>>

NextRank == EvaluateRank

SpecRank == InitRank /\ [][NextRank]_vars

\* -- SpecContinue: the client's Search More against the server.  One search
\* whose first page leaves candidates undialed; the results screen offers
\* Search More once every dialed call of the batch is finished (here: its
\* placement failed); the request the client sends is the body the server
\* reads, and the server's response is what the client's fetch resolves to.
ContinueRequests == 1   \* search_more requests the server accepts

EnvContinue ==
  [NGROK_URL |-> PublicUrl,
   batches |-> MaxBatches,
   requests |-> {Request("next_available", Absent, 1), Request("next_available", Absent, 2)},
   results |-> SearchResults, calls |-> MaxPlaces, failing |-> SUBSET (1..MaxPlaces),
   more |-> ContinueRequests]

\* Every dialed call of batch b is finished: what makes the results screen
\* show the Search More button (292, 348-350).
Finished(b) ==
  isDone([c \in CallsOf(b) |-> calls[c]], batches[b].called_count)

NextContinue ==
  \/ Search(EnvContinue)
  \/ \E b \in BatchIds : Known(b) /\ Finished(b) /\ HandleSearchMore(b)
  \/ \E k \in 1..MaxPending :
       /\ pending[k].pc = "fetch" /\ pending[k].kind = "more"
       /\ accepted.more < EnvContinue.more
       /\ SearchMoreRequest(pending[k].body)
  \/ \E k \in 1..MaxPending :
       /\ response.route = "search_more"
       /\ MoreReplied(k, [ok |-> response.code = 200,
                          batchId |-> IF response.code = 200 THEN response.batchId ELSE 0])

SpecContinue == Init /\ [][NextContinue]_vars

\* -- SpecClient: the client alone, for any interleaving of search
\* submissions, Search More actions, the firing of intervals and the
\* responses of the server, which answers any request either way.
MaxIntervals  == 3   \* intervals ever set
ClientBatches == 2   \* batch ids the server answers with

Replies == [ok : {FALSE}, batchId : {0}] \cup [ok : {TRUE}, batchId : 1..ClientBatches]

NextClient ==
  \/ /\ Len(intervals) + Busy(pending) < MaxIntervals
     /\ \E valid \in BOOLEAN : HandleSearchSubmit(valid)
  \/ \E k \in 1..MaxPending, reply \in Replies : SearchReplied(k, reply)
  \/ /\ Len(intervals) + Busy(pending) < MaxIntervals
     /\ \E b \in 1..ClientBatches : HandleSearchMore(b)
  \/ \E k \in 1..MaxPending, reply \in Replies : MoreReplied(k, reply)
  \/ \E t \in DOMAIN intervals : PollFire(t)
  \/ \E p \in 1..MaxPolls, outcome \in PollOutcomes : PollReplied(p, outcome)

SpecClient == Init /\ [][NextClient]_vars

\* -- SpecRecording: one search that dials one restaurant (call 1 = p2), then
\* the events of that call in every order, the recording of the answer
\* failing to download or transcribe or not, and the classifier replying
\* with every outcome string and flag, or throwing.
RecordingEvents == 4   \* webhook deliveries accepted

\* The outcome strings of the README's Result schema, an empty (missing)
\* outcome and a string outside the schema.
ClassifierOutcomes ==
  {"available", "alternative_offered", "credit_card_required", "left_message", "opt_out",
   "no_reservation_line", "machine_detected", "other", "pending", "", "not_available"}

\* The JSON objects the classifier may reply with (359).
ClassifierReplies ==
  { [outcome |-> o, ai_summary |-> IF o = "" THEN "" ELSE "What the restaurant said.",
     credit_card_required |-> f] : o \in ClassifierOutcomes, f \in BOOLEAN }

EnvRecording ==
  [NGROK_URL |-> PublicUrl,
   batches |-> MaxBatches, requests |-> {Request("next_available", Absent, 1)},
   results |-> {<<PlacePool[2]>>}, calls |-> 1, failing |-> {{}},
   events |-> RecordingEvents, handlers |-> MaxHandlers, types |-> EventTypes,
   script |-> {<<1, type, result>> : type \in EventTypes \ {"call.initiated"},
                                     result \in {"", "not_sure", "beep_detected"}},
   amd |-> AmdResults, commandOk |-> {TRUE}, digits |-> {0},
   transcripts |-> {"", "Yes we do."}, replies |-> ClassifierReplies \cup {NluThrows}]

NextRecording == Search(EnvRecording) \/ Webhook(EnvRecording)

SpecRecording == Init /\ [][NextRecording]_vars

\* -- SpecWebhook: one search that dials a page of two restaurants (call 1 =
\* p2, call 2 = p3), then deliveries for call 1 of every event type and of a
\* type the handler has no branch for, deliveries that are not an event of a
\* known call, and call-control commands that are rejected.
WebhookEvents == 4   \* webhook deliveries accepted

\* The event types of EventTypes and one the handler does not recognise.
DeliveredTypes == EventTypes \cup {"call.speak.ended"}

EnvWebhook ==
  [NGROK_URL |-> PublicUrl,
   batches |-> MaxBatches, requests |-> {Request("next_available", Absent, 2)},
   results |-> {<<PlacePool[2], PlacePool[3]>>}, calls |-> 2, failing |-> {{}},
   events |-> WebhookEvents, handlers |-> MaxHandlers, types |-> DeliveredTypes,
   script |-> {<<1, type, result>> : type \in DeliveredTypes,
                                     result \in {"", "not_sure", "beep_detected"}},
   amd |-> AmdResults, commandOk |-> BOOLEAN, digits |-> {0},
   transcripts |-> {"Please stop calling."}, replies |-> NluReplies,
   malformed |-> MalformedKinds]

NextWebhook == Search(EnvWebhook) \/ Webhook(EnvWebhook) \/ Malformed(EnvWebhook)

SpecWebhook == Init /\ [][NextWebhook]_vars

\* ================================================================ claims
Rank(status) ==
  CASE status = "initiated" -> 0
    [] status = "in_progress" -> 1
    [] OTHER -> 2

\* C1: a CallRecord's status never moves backward in the order
\* initiated < in_progress < {completed, failed}, whatever webhook events are
\* delivered, duplicated or reordered.
C1_StatusNeverMovesBackward ==
  [][\A c \in CallIds : Rank(calls'[c].status) >= Rank(calls[c].status)]_vars

\* C2: a webhook event processed for a CallRecord that the handler read as
\* completed or failed is a no-op: no step of that handler changes the
\* record or the DNC registry or issues a call-control command.
C2_TerminalEventIsNoOp ==
  [][\A i \in 1..MaxHandlers :
       /\ handlers[i].pc \notin {"idle", "get"}
       /\ Terminal(handlers[i].status)
       /\ handlers'[i] # handlers[i]
       => /\ calls'[handlers[i].call] = calls[handlers[i].call]
          /\ dnc' = dnc
          /\ issued' = NoCommand]_vars

\* No coordinator request is running.
Quiescent == searchReq = Idle /\ Busy(moreReqs) = 0

\* The items a status response carries are the batch's records as they are now.
Current(resp) ==
  /\ DOMAIN resp.items = CallsOf(resp.batchId)
  /\ \A c \in DOMAIN resp.items : resp.items[c] = calls[c]

AllTerminal(batchId) ==
  /\ CallsOf(batchId) # {}
  /\ \A c \in CallsOf(batchId) : Terminal(calls[c].status)

\* C3: when every CallRecord of a batch with at least one dialed call is
\* completed or failed, GetStatus answers `completed` and the batch document
\* holds `completed`, whatever the records' outcomes.
C3_AllTerminalReportsCompleted ==
  /\ response.route = "status" /\ response.code = 200
  /\ Quiescent /\ Current(response) /\ AllTerminal(response.batchId)
  => /\ response.status = "completed"
     /\ batches[response.batchId].status = "completed"

\* C4: a GetStatus response `completed` implies that at least one call was
\* dialed and that every CallRecord of the batch is completed or failed, also
\* while a ContinueBatch for the batch is running.
C4_CompletedImpliesAllTerminal ==
  response.route = "status" /\ response.code = 200 /\ response.status = "completed"
  => AllTerminal(response.batchId)

\* Every record of the batch is completed or failed, or still has the pending
\* Result it was created with (no record left a terminal status again).
Settled(b) ==
  \A c \in CallsOf(b) : Terminal(calls[c].status) \/ calls[c].result.outcome = "pending"

\* C6: for the CallRecords of a batch no coordinator request is working on,
\* each of them terminal or still pending, the count-based test of GetStatus
\* agrees with the direct one: at least one call dialed and every record
\* completed or failed.
C6_CountTestEqualsDirectTest ==
  \A b \in BatchIds :
    Quiescent /\ Settled(b) =>
      (isDone([c \in CallsOf(b) |-> calls[c]], batches[b].called_count)
        <=> AllTerminal(b))

\* No two CallRecords of a batch are calls to the same candidate.
NoDoubleDial(b) ==
  \A c1, c2 \in CallsOf(b) : calls[c1].phone = calls[c2].phone => c1 = c2

\* C7: after StartBatch and any number of sequential ContinueBatch requests
\* no candidate of the batch has been dialed twice.
C7_SequentialPagesNeverRedial == \A b \in BatchIds : NoDoubleDial(b)

\* Every candidate of the stored list is open at the requested time, so that
\* the pages of sequential continuations are disjoint.
AllOpen(b) ==
  OpenPlaces(all_restaurants_found[b], batches[b].query) = all_restaurants_found[b]

\* C8: two overlapping ContinueBatch requests never dial the same page: also
\* for a stored list without closed candidates each candidate has at most one
\* CallRecord.
C8_OverlappingPagesNeverRedial ==
  \A b \in BatchIds : Known(b) /\ AllOpen(b) => NoDoubleDial(b)

\* C9: called_count of a batch never decreases.
C9_CalledCountNeverDecreases ==
  [][\A b \in BatchIds : batches'[b].called_count >= batches[b].called_count]_vars

Shows(item, status, outcome) == item.status = status /\ item.result.outcome = outcome

\* C5: after the scenario (call 1 left a voicemail, call 2 was classified
\* available, call 3 only hung up) GetStatus shows the three results and the
\* batch status completed.
C5_ScenarioReportsCompleted ==
  /\ response.route = "status" /\ response.code = 200 /\ Current(response)
  /\ DOMAIN response.items = 1..3
  /\ Shows(response.items[1], "completed", "left_message")
  /\ Shows(response.items[2], "completed", "available")
  /\ Shows(response.items[3], "completed", "no_reservation_line")
  => response.status = "completed"

\* page holds members of list, in the order of list.
IsPageOf(page, list) ==
  /\ Range(page) \subseteq Range(list)
  /\ page = SelectSeq(list, LAMBDA p : p \in Range(page))

\* C10: the stored candidate list is written by StartBatch alone: once
\* StartBatch has responded no step of ContinueBatch, GetStatus or a webhook
\* handler changes its members or their ranks, and the page a ContinueBatch
\* answers with is taken from it in rank order.
C10_ListWrittenOnlyByStartBatch ==
  [][/\ all_restaurants_found' # all_restaurants_found => searchReq.pc \in {"set", "found"}
     /\ \A b \in BatchIds :
          Known(b) => all_restaurants_found'[b] = all_restaurants_found[b]
     /\ response'.route = "search_more" /\ response'.code = 200
          => IsPageOf(response'.restaurants, all_restaurants_found'[response'.batchId])]_vars

\* A continuation has answered with its page, after a webhook event and a
\* status poll were handled, and the list is still the ranked search result.
C10_Witness ==
  /\ response.route = "search_more" /\ response.code = 200
  /\ response.restaurants # <<>>
  /\ accepted.events > 0 /\ accepted.status > 0
  /\ all_restaurants_found[response.batchId] =
       getAndRankPlaceDetails(PlacePool, RANK_LIMIT, {})
  /\ Len(all_restaurants_found[response.batchId]) = 3

\* The fields of a CallRecord that make up its terminal Result.
Outcome(c) == <<c.status, c.result.outcome, c.result.ai_summary>>

\* C11: the terminal Result of a CallRecord is written at most once: a
\* recording-stopped or hangup handler that passed its status test while the
\* record was not terminal does not overwrite the status, outcome or summary
\* another handler has written since.
C11_TerminalResultWrittenOnce ==
  [][\A i \in 1..MaxHandlers :
       /\ handlers[i].pc \in {"nlu", "hangup_update"}
       /\ handlers'[i] # handlers[i]
       /\ Terminal(calls[handlers[i].call].status)
       => Outcome(calls'[handlers[i].call]) = Outcome(calls[handlers[i].call])]_vars

\* C12: a hangup event processed for a CallRecord it reads as initiated or
\* in_progress makes the record completed with outcome no_reservation_line;
\* one that reads completed or failed ends there and leaves every record as
\* it is.
C12_HangupClosesOpenRecord ==
  [][\A i \in 1..MaxHandlers :
       LET h == handlers[i]
       IN  /\ h.pc = "final_get" /\ handlers'[i] # h
              => IF calls[h.call].status \in {"initiated", "in_progress"}
                 THEN handlers'[i].pc = "hangup_update" /\ calls' = calls
                 ELSE handlers'[i] = Idle /\ calls' = calls /\ dnc' = dnc
                      /\ issued' = NoCommand
           /\ h.pc = "hangup_update" /\ handlers'[i] # h
              => /\ Shows(calls'[h.call], "completed", "no_reservation_line")
                 /\ \A c \in CallIds \ {h.call} : calls'[c] = calls[c]
                 /\ handlers'[i] = Idle]_vars

\* The hangup of an answered call has closed its record, and every delivery
\* for the call has been processed.
C12_Witness ==
  /\ 1 \in CallIds
  /\ Shows(calls[1], "completed", "no_reservation_line")
  /\ <<1, "amd_start">> \in commands
  /\ Busy(handlers) = 0
  /\ accepted.events >= 3

\* A handler of a hangup event of call c is about to re-read the record.
HangupProcessed(c) ==
  \E i \in 1..MaxHandlers : handlers[i].pc = "final_get" /\ handlers[i].call = c

\* C13: a dialed CallRecord whose hangup event is delivered and processed is
\* eventually completed or failed and stays so, whatever other events of the
\* call are lost, duplicated or reordered.
C13_HangupEventuallyCloses ==
  \A c \in 1..2 :
    <>HangupProcessed(c) => <>[](c \in CallIds /\ Terminal(calls[c].status))

\* The page the coordinator request taking its dial step is dialing.
DialedPage ==
  IF searchReq.pc = "dial" THEN searchReq.restaurantsToCall
  ELSE LET i == CHOOSE i \in 1..MaxMoreOpen :
                  moreReqs[i].pc = "dial" /\ moreReqs'[i].pc = "update"
       IN  moreReqs[i].nextRestaurantsToCall

\* C14: a dial step creates one CallRecord per candidate of its page, in page
\* order; each is either placed (initiated, pending) or, its placement request
\* having failed, failed with outcome no_reservation_line, whatever happened
\* to the placement of the others; and the record of a call that was never
\* placed stays failed / no_reservation_line.
C14_FailedPlacementIsLocal ==
  [][/\ Len(calls') > Len(calls) =>
          /\ Len(calls') = Len(calls) + Len(DialedPage)
          /\ \A k \in 1..Len(DialedPage) :
               LET c == Len(calls) + k
               IN  /\ calls'[c].phone = DialedPage[k].international_phone_number
                   /\ IF c \in placed'
                      THEN Shows(calls'[c], "initiated", "pending")
                      ELSE Shows(calls'[c], "failed", "no_reservation_line")
     /\ \A c \in CallIds \ placed :
          /\ Shows(calls[c], "failed", "no_reservation_line")
          /\ calls'[c] = calls[c]]_vars

\* The second placement of a page of two failed; the first call was placed,
\* answered and closed, and the failed record is as it was written.
C14_Witness ==
  /\ Len(calls) = 2 /\ placed = {1}
  /\ calls[1].batchId = calls[2].batchId
  /\ Shows(calls[2], "failed", "no_reservation_line")
  /\ calls[1].status = "completed"

Phones(page) == {page[k].international_phone_number : k \in 1..Len(page)}

\* The recording-stopped handler of call c has classified the answer and has
\* not yet reached the end of its registry write.
WritingDnc(c) == \E i \in 1..MaxHandlers : handlers[i].pc = "dnc" /\ handlers[i].call = c

\* C15: once the handler of a recording-stopped event classified as opt_out
\* has made its registry write, the restaurant's phone number is in the
\* registry and stays there; a StartBatch that begins with the number in the
\* registry leaves it out of the stored list and of the page, and creates
\* CallRecords for the numbers of its page only.
C15_OptOutExcludesFromLaterSearch ==
  [][/\ \A c \in CallIds :
          calls'[c].result.outcome = "opt_out" /\ ~WritingDnc(c)'
          => calls'[c].phone \in dnc'
     /\ dnc \subseteq dnc'
     /\ searchReq.pc = "idle" /\ searchReq'.pc = "set"
          => /\ Phones(searchReq'.detailedPlaces) \cap dnc = {}
             /\ Phones(searchReq'.restaurantsToCall) \cap dnc = {}
     /\ searchReq.pc = "dial" /\ searchReq'.pc = "update"
          => {calls'[c].phone : c \in (Len(calls) + 1)..Len(calls')}
               = Phones(searchReq.restaurantsToCall)]_vars

\* p2 opted out on the call of the first batch; the second search began after
\* that, found p2 as well, and stored and dialed p1 alone.
C15_Witness ==
  /\ Len(batches) = 2 /\ searchReq = Idle
  /\ calls[1].result.outcome = "opt_out" /\ calls[1].phone \in dnc
  /\ calls[1].phone \notin Phones(all_restaurants_found[2])
  /\ \E c \in CallIds : calls[c].batchId = 2
  /\ \A c \in CallIds : calls[c].batchId = 2 => calls[c].phone \notin dnc

\* The page a continuation accepted with the batch document it has just read
\* is going to dial.
PageOf(r) ==
  OpenPlaces(Slice(all_restaurants_found[r.batchId], r.called_count,
                   r.called_count + MAX_CALLS_DEFAULT), r.query)

\* C16: every dial is preceded by a read of the registry: neither StartBatch
\* nor ContinueBatch dials a phone number that was in the registry when the
\* operation began.
C16_RegistryReadBeforeEveryDial ==
  [][/\ searchReq.pc = "idle" /\ searchReq'.pc = "set"
          => Phones(searchReq'.restaurantsToCall) \cap dnc = {}
     /\ \A i \in 1..MaxMoreOpen :
          moreReqs[i].pc = "idle" /\ moreReqs'[i].pc = "list"
          => Phones(PageOf(moreReqs'[i])) \cap dnc = {}]_vars

\* isRestaurantOpenAt has returned for a request with a valid time of day.
Evaluated ==
  evaluation.fn = "isRestaurantOpenAt" /\ evaluation.done /\ TimeParses(evaluation.time)

\* C17: isRestaurantOpenAt returns open for a venue with zero periods: no
\* opening hours, no periods field, or an empty periods list, for every
\* requested day and valid time.
C17_ZeroPeriodsIsOpen ==
  Evaluated /\ evaluation.opening_hours.periods = <<>> => evaluation.result = TRUE

\* The requested (day, time) lies in [open, close) of the period; a period
\* closing on the day after it opens covers [open, end of day) on its open
\* day and [start of day, close) on its close day.
Covers(period, day, time) ==
  IF period.close.day = period.open.day
  THEN day = period.open.day /\ period.open.time <= time /\ time < period.close.time
  ELSE \/ day = period.open.day /\ period.open.time <= time
       \/ day = period.close.day /\ time < period.close.time

WellFormed(periods) ==
  /\ periods # <<>>
  /\ \A k \in 1..Len(periods) :
       /\ periods[k].open.present /\ periods[k].close.present
       /\ \/ periods[k].close.day = periods[k].open.day
             /\ periods[k].open.time < periods[k].close.time
          \/ periods[k].close.day = (periods[k].open.day + 1) % 7

\* C18: for periods that each have an open and a close, isRestaurantOpenAt
\* returns open exactly when the requested day and time lie in [open, close)
\* of some period.
C18_OpenExactlyInsideAPeriod ==
  Evaluated /\ WellFormed(evaluation.opening_hours.periods)
  => (evaluation.result
        <=> \E k \in 1..Len(evaluation.opening_hours.periods) :
              Covers(evaluation.opening_hours.periods[k], evaluation.date, evaluation.time))

\* C19: a period with an open day and time and no close is 24-hour operation:
\* a request on its open day is open at every time (here for requests the
\* evaluator resolves in UTC, where the resolved day is the requested one).
C19_OpenWithoutCloseIsAllDay ==
  /\ Evaluated /\ evaluation.timeZoneId = 0
  /\ \E k \in 1..Len(evaluation.opening_hours.periods) :
       LET period == evaluation.opening_hours.periods[k]
       IN  period.open.present /\ ~period.close.present /\ period.open.day = evaluation.date
  => evaluation.result = TRUE

\* The candidates the eligibility filter has to reject.
MustReject(place) ==
  \/ place.international_phone_number = ""
  \/ place.business_status = ""
  \/ place.business_status # "OPERATIONAL"
  \/ ~place.has_types
  \/ "restaurant" \notin place.types
  \/ place.types \cap hardExclusions # {}

\* C20: isEligibleForReservation returns a boolean for every candidate, the
\* same one each time it is called with the same candidate, and false for a
\* candidate without phone number, without operating status, not operational,
\* not tagged restaurant, or tagged fast_food, meal_takeaway or meal_delivery.
C20_EligibilityRejects ==
  evaluation.fn = "isEligibleForReservation" =>
    \A k \in 1..Len(evaluation.results) :
      /\ evaluation.results[k] \in BOOLEAN
      /\ evaluation.results[k] = evaluation.results[1]
      /\ MustReject(evaluation.place) => evaluation.results[k] = FALSE

\* An operational restaurant with every field but the phone number has been
\* evaluated twice and rejected.
C20_Witness ==
  /\ evaluation.fn = "isEligibleForReservation"
  /\ Len(evaluation.results) = MaxRepeats
  /\ evaluation.place.international_phone_number = ""
  /\ evaluation.place.business_status = "OPERATIONAL"
  /\ evaluation.place.vicinity # "" /\ ~evaluation.place.permanently_closed
  /\ evaluation.place.types = {"restaurant"}
  /\ evaluation.results[1] = FALSE

\* C21: whatever max_calls a search asks for (more than the hard maximum,
\* zero, negative), StartBatch dials at most MAX_CALLS_HARD calls.
C21_DialsAtMostHardMaximum ==
  \A b \in BatchIds : Cardinality(CallsOf(b)) <= MAX_CALLS_HARD

\* The documents and commands the server has written.
Stores == <<batches, all_restaurants_found, calls, dnc, placed, commands>>

\* The search request lacks location, date or party size, or has intent
\* specific_time and no time.
Lacks(req) ==
  \/ req.location = "" \/ ~req.has_date \/ req.party_size = 0
  \/ req.intent = "specific_time" /\ req.time = Absent

\* C24: a search request that lacks location, date or party size, or that
\* has intent specific_time and no time, is answered 400 at once: no lookup
\* is made, no Batch and no CallRecord is created and no call is placed.
C24_IncompleteSearchIsRejected ==
  [][evaluation.fn = "search_and_call" /\ Lacks(evaluation.request)
     /\ searchReq = Idle /\ response' # response
     => /\ response' = [route |-> "search_and_call", code |-> 400]
        /\ searchReq' = Idle /\ accepted' = accepted
        /\ Stores' = Stores /\ Stores = <<<<>>, <<>>, <<>>, {}, {}, {}>>]_vars

\* A request complete but for its party size has been answered 400, and
\* nothing was created.
C24_Witness ==
  /\ evaluation.fn = "search_and_call"
  /\ evaluation.request.party_size = 0
  /\ evaluation.request.cuisine # "" /\ evaluation.request.location # ""
  /\ evaluation.request.has_date /\ evaluation.request.time # Absent
  /\ response = [route |-> "search_and_call", code |-> 400]
  /\ batches = <<>> /\ calls = <<>> /\ placed = {}

\* C22: a ContinueBatch or a GetStatus for a batch id that does not exist is
\* answered 404 and changes no batch, no stored list, no CallRecord and no
\* registry entry, and places no call.
C22_UnknownBatchIsNotFound ==
  [][/\ accepted'.more > accepted.more
          => \/ \E i \in 1..MaxMoreOpen :
                  /\ moreReqs[i] = Idle /\ moreReqs'[i] # Idle
                  /\ moreReqs'[i].batchId \in BatchIds
             \/ /\ response' = [route |-> "search_more", code |-> 404]
                /\ moreReqs' = moreReqs /\ Stores' = Stores
     /\ statusReq = Idle /\ statusReq' # Idle => Stores' = Stores
     /\ statusReq.pc = "batch" /\ statusReq' # statusReq
          => IF statusReq.batchId \in BatchIds
             THEN response'.route = "none" \/ response'.code = 200
             ELSE /\ response' = [route |-> "status", code |-> 404]
                  /\ statusReq' = Idle /\ Stores' = Stores]_vars

\* A status poll for an unknown id was answered 404 while a batch with one
\* call exists; the continuation accepted before it was for an unknown id
\* as well and has left the batch as StartBatch wrote it.
C22_Witness ==
  /\ response = [route |-> "status", code |-> 404]
  /\ accepted.more = 1 /\ Busy(moreReqs) = 0 /\ searchReq = Idle
  /\ Len(batches) = 1 /\ Len(calls) = 1
  /\ batches[1].called_count = 1
  /\ Len(all_restaurants_found[1]) = 3

\* C23: a ContinueBatch whose slice of the stored list, starting at the
\* called_count it read, is empty or holds only candidates closed at the
\* requested time answers 404 (no more candidates): it creates no
\* CallRecord, places no call and leaves called_count and the batch status.
C23_NoMoreCandidates ==
  [][\A i \in 1..MaxMoreOpen :
       moreReqs[i].pc = "list" /\ moreReqs'[i] # moreReqs[i]
       => LET r == moreReqs[i]
              slice == Slice(all_restaurants_found[r.batchId], r.called_count,
                             r.called_count + MAX_CALLS_DEFAULT)
          IN  IF slice = <<>> \/ OpenPlaces(slice, r.query) = <<>>
              THEN /\ response' = [route |-> "search_more", code |-> 404]
                   /\ moreReqs'[i] = Idle
                   /\ Stores' = Stores
              ELSE /\ moreReqs'[i].pc = "dial"
                   /\ moreReqs'[i].nextRestaurantsToCall = OpenPlaces(slice, r.query)]_vars

\* The only candidate left behind the first page is closed at the requested
\* time: the continuation has answered 404 and dialed nothing.
C23_Witness ==
  /\ response = [route |-> "search_more", code |-> 404]
  /\ Len(batches) = 1 /\ searchReq = Idle /\ Busy(moreReqs) = 0
  /\ batches[1].query.intent = "specific_time"
  /\ batches[1].called_count = 1 /\ Len(calls) = 1
  /\ Len(all_restaurants_found[1]) = 2
  /\ OpenPlaces(Slice(all_restaurants_found[1], 1, 2), batches[1].query) = <<>>

\* The outcomes of the Result schema.
ResultOutcomes ==
  {"available", "alternative_offered", "credit_card_required", "left_message", "opt_out",
   "no_reservation_line", "machine_detected", "other", "pending"}

\* C25: every CallRecord's Result outcome is one of the outcomes of the
\* Result schema; a classifier reply whose outcome is missing or outside the
\* schema is stored as other.
C25_OutcomeIsInSchema ==
  \A c \in CallIds : calls[c].result.outcome \in ResultOutcomes

\* C26: in every stored Result the credit_card_required flag is true only if
\* the outcome is credit_card_required.
C26_FlagOnlyWithCardOutcome ==
  \A c \in CallIds :
    calls[c].result.credit_card_required = TRUE
    => calls[c].result.outcome = "credit_card_required"

\* C27: a recording-stopped handler of an in_progress call whose audio
\* download or transcription failed (no transcript) or whose classification
\* failed leaves the record completed with outcome other and
\* credit_card_required false.
C27_FailedPipelineStoresOther ==
  [][\A i \in 1..MaxHandlers :
       /\ handlers[i].pc = "nlu" /\ handlers'[i] # handlers[i]
       /\ \/ calls'[handlers[i].call].raw = ""
          \/ calls'[handlers[i].call].result.ai_summary = NluFallback.ai_summary
       => /\ calls'[handlers[i].call].status = "completed"
          /\ calls'[handlers[i].call].result.outcome = "other"
          /\ calls'[handlers[i].call].result.credit_card_required = FALSE]_vars

\* C28: a webhook delivery with no event data, with no call-control id,
\* with a call-control id that matches no CallRecord, or of an unrecognised
\* event type changes no CallRecord, no Batch and no DNC entry, issues no
\* call-control command and leaves no handler in an error state.
C28_MalformedDeliveryIsIgnored ==
  [][/\ \A i \in 1..MaxHandlers : handlers'[i].pc # "rejected"
     /\ /\ accepted'.events > accepted.events
        /\ \A i \in 1..MaxHandlers :
             \/ handlers'[i] = handlers[i]
             \/ handlers'[i].pc = "get" /\ handlers'[i].call \notin CallIds
        => Stores' = Stores /\ issued' = NoCommand
     /\ \A i \in 1..MaxHandlers :
          /\ handlers[i].pc = "get" /\ handlers'[i] # handlers[i]
          /\ handlers[i].call \notin CallIds \/ handlers[i].type \notin EventTypes
          => handlers'[i] = Idle /\ Stores' = Stores /\ issued' = NoCommand]_vars

\* C29: a step of the handling of a webhook event for call X, also one that
\* ends the handling part-way, changes no CallRecord but X's and no field of
\* a Batch, and changes the DNC registry only by adding X's phone after the
\* handler classified X's recording as opt_out.
C29_HandlerTouchesOnlyItsRecord ==
  [][\A i \in 1..MaxHandlers :
       handlers[i].pc \notin {"idle", "rejected"} /\ handlers'[i] # handlers[i]
       => /\ batches' = batches /\ all_restaurants_found' = all_restaurants_found
          /\ DOMAIN calls' = DOMAIN calls
          /\ \A c \in CallIds \ {handlers[i].call} : calls'[c] = calls[c]
          /\ dnc' # dnc => /\ handlers[i].call \in CallIds
                           /\ handlers[i].pc = "dnc"
                           /\ dnc' = dnc \cup {calls[handlers[i].call].phone}]_vars

\* The handling of call 1's recording stored opt_out, added call 1's phone
\* to the registry and ended at the rejected goodbye command; call 2 and the
\* batch are as StartBatch left them.
C29_Witness ==
  /\ Len(calls) = 2 /\ searchReq = Idle
  /\ calls[1].status = "completed" /\ calls[1].result.outcome = "opt_out"
  /\ dnc = {calls[1].phone}
  /\ <<1, "speak_goodbye">> \notin commands /\ Busy(handlers) = 0
  /\ calls[2].status = "initiated" /\ calls[2].result.outcome = "pending"
  /\ batches[1].called_count = 2 /\ batches[1].status = "calling"

\* The acknowledgement of a webhook delivery.
Acknowledged == [route |-> "webhook", code |-> 200]

\* C30: every webhook delivery is acknowledged in the step that accepts it,
\* whatever it holds, and that step reads and changes no CallRecord, no Batch
\* and no DNC entry and issues no call-control command: the handler's first
\* read and everything after it follow the acknowledgement.
C30_AcknowledgedBeforeProcessing ==
  [][/\ accepted'.events > accepted.events
        => response' = Acknowledged /\ Stores' = Stores /\ issued' = NoCommand
     /\ \A i \in 1..MaxHandlers :
          handlers[i] = Idle /\ handlers'[i] # Idle
          => /\ accepted'.events = accepted.events + 1
             /\ response' = Acknowledged
             /\ handlers'[i].pc \in {"get", "rejected"}]_vars

\* A hangup event of call 1 has been acknowledged and its handler has not
\* read the record yet: the record is as StartBatch wrote it.
C30_Witness ==
  /\ response = Acknowledged
  /\ \E i \in 1..MaxHandlers :
       /\ handlers[i].pc = "get" /\ handlers[i].call = 1
       /\ handlers[i].type = "call.hangup"
  /\ calls[1].status = "initiated" /\ commands = {}

\* C31: after human detection the CallRecord stays in_progress with outcome
\* pending until the recording-stopped event of the open-ended answer
\* recording is processed: a recording-stopped event processed after the
\* initial IVR recording was stopped and before the answer recording was
\* started does not change the record.
C31_IvrRecordingDoesNotComplete ==
  [][\A i \in 1..MaxHandlers :
       /\ handlers[i].pc \notin {"idle", "get"}
       /\ handlers[i].type = "call.record.stopped"
       /\ handlers'[i] # handlers[i]
       /\ <<handlers[i].call, "record_stop">> \in commands
       /\ <<handlers[i].call, "record_start_answer">> \notin commands
       => calls'[handlers[i].call] = calls[handlers[i].call]]_vars

\* C32: when machine detection reports a machine, the handler speaks the
\* voicemail, then sets the record to completed with outcome left_message,
\* then issues hang-up, never hang-up before the record is completed; a
\* hangup event whose handler found the record completed does not change the
\* outcome left_message.
C32_VoicemailThenCompletedThenHangup ==
  [][\A i \in 1..MaxHandlers :
       handlers[i].pc \notin {"idle", "get"} /\ handlers'[i] # handlers[i]
       => LET h == handlers[i]
              c == h.call
          IN  /\ h.pc = "vm_speak"
                 => /\ issued' = <<c, "speak_voicemail">>
                    /\ calls' = calls /\ handlers'[i].pc = "vm_update"
              /\ h.pc = "vm_update"
                 => /\ <<c, "speak_voicemail">> \in commands
                    /\ calls'[c].status = "completed"
                    /\ calls'[c].result.outcome = "left_message"
                    /\ issued' = NoCommand /\ handlers'[i].pc = "vm_hangup"
              /\ h.pc = "vm_hangup"
                 => issued' = <<c, "hangup">> /\ calls' = calls
              /\ /\ h.type = "call.hangup" /\ h.status = "completed"
                 /\ calls[c].result.outcome = "left_message"
                 => calls'[c].result.outcome = "left_message"]_vars

\* C33: processing call-initiated issues the answer command and leaves the
\* CallRecord unchanged; processing call-answered for a record read as
\* initiated sets its status to in_progress, leaves its Result as it is
\* (pending), and then issues start-machine-detection.
C33_InitiatedAnswersAnsweredDetects ==
  [][\A i \in 1..MaxHandlers :
       handlers[i].pc \notin {"idle", "get"} /\ handlers'[i] # handlers[i]
       => LET h == handlers[i]
              c == h.call
          IN  /\ h.type = "call.initiated"
                 => /\ h.pc = "answer" /\ issued' = <<c, "answer">>
                    /\ calls' = calls /\ handlers'[i] = Idle
              /\ h.type = "call.answered" /\ h.status = "initiated"
                 => \/ /\ h.pc = "in_progress"
                       /\ calls'[c] = [calls[c] EXCEPT !.status = "in_progress"]
                       /\ issued' = NoCommand /\ handlers'[i].pc = "amd_start"
                    \/ /\ h.pc = "amd_start" /\ issued' = <<c, "amd_start">>
                       /\ calls' = calls /\ handlers'[i] = Idle]_vars

\* Call 1 was initiated and answered: both commands were issued and the
\* record is in_progress with its pending Result.
C33_Witness ==
  /\ 1 \in CallIds
  /\ calls[1].status = "in_progress" /\ calls[1].result.outcome = "pending"
  /\ <<1, "answer">> \in commands /\ <<1, "amd_start">> \in commands
  /\ Busy(handlers) = 0

\* C34: for a machine-detection result that is neither a machine result nor
\* human_detected, the handler issues the command sequence of human_detected:
\* it begins with the initial IVR recording.
C34_UnknownResultTakesHumanBranch ==
  [][\A i \in 1..MaxHandlers :
       /\ handlers[i].pc = "get" /\ handlers'[i] # handlers[i]
       /\ handlers[i].type = "call.amd.detection_ended"
       /\ handlers[i].result \notin MachineResults
       => /\ handlers'[i].pc = "record_start"
          /\ calls' = calls]_vars

\* What GET /status answers for batch b, and whether it writes the batch
\* document, when it runs alone on the batches bs and the calls cs.
StatusAlone(bs, cs, b) ==
  LET items == [c \in {k \in 1..Len(cs) : cs[k].batchId = b} |-> cs[c]]
      done  == isDone(items, bs[b].called_count)
  IN  [status |-> IF done THEN "completed" ELSE "calling", items |-> items,
       writes |-> done /\ bs[b].status # "completed"]

\* C35: GetStatus is idempotent: after a GetStatus that ran with no
\* coordinator request and no webhook handler running, a second GetStatus on
\* the same batch answers the same status and the same items and does not
\* write the batch document.
C35_StatusIsIdempotent ==
  [][response'.route = "status" /\ response'.code = 200
     => LET second == StatusAlone(batches', calls', response'.batchId)
        IN  /\ second.status = response'.status
            /\ second.items = response'.items
            /\ ~second.writes]_vars

\* The second poll of a batch whose two placements failed answers completed
\* with both records; the batch document was set to completed before.
C35_Witness ==
  /\ accepted.status = StatusPolls
  /\ response.route = "status" /\ response.code = 200
  /\ response.status = "completed" /\ Quiescent /\ Current(response)
  /\ Cardinality(DOMAIN response.items) = 2
  /\ batches[response.batchId].status = "completed"

\* The rating the ranking compares: a missing rating counts as 0.
Rated(p) == IF p.rating = Absent THEN 0 ELSE p.rating

\* The position of a place in the places the ranking was given.
Discovered(p) == CHOOSE k \in DOMAIN evaluation.places : evaluation.places[k] = p

\* The places the ranking has to return when the limit allows.
Qualified ==
  {p \in Range(evaluation.places) :
     /\ isEligibleForReservation(p)
     /\ p.international_phone_number \notin evaluation.doNotCallList}

\* p ranks before q.
Before(p, q) ==
  Rated(p) > Rated(q) \/ (Rated(p) = Rated(q) /\ Discovered(p) < Discovered(q))

\* C36: getAndRankPlaceDetails returns eligible candidates that are not in
\* the registry, in non-increasing order of rating (a missing rating is 0),
\* candidates of equal rating in discovery order, the first `limit` of them;
\* the same input and registry give the same output.
C36_RankedStableTruncated ==
  evaluation.fn = "getAndRankPlaceDetails"
  => \A n \in DOMAIN evaluation.results :
       LET r == evaluation.results[n]
       IN  /\ Range(r) \subseteq Qualified
           /\ \A i, j \in DOMAIN r : i < j => Before(r[i], r[j])
           /\ Len(r) = Min(evaluation.limit, Cardinality(Qualified))
           /\ \A q \in Qualified \ Range(r) : \A i \in DOMAIN r : Before(r[i], q)
           /\ r = evaluation.results[1]

\* Three places were given, the first unrated and the third rated 0, the
\* second rated 5 but in the registry: both calls returned the first before
\* the third.
C36_Witness ==
  /\ evaluation.fn = "getAndRankPlaceDetails"
  /\ Len(evaluation.results) = MaxRepeats
  /\ Len(evaluation.places) = 3
  /\ evaluation.places[1].rating = Absent /\ evaluation.places[3].rating = 0
  /\ evaluation.places[2].rating = 5
  /\ evaluation.doNotCallList = {PlaceNumbers[2]}
  /\ evaluation.results[2] = <<evaluation.places[1], evaluation.places[3]>>

\* C37: the continuation request the client's Search More sends for a batch
\* with undialed candidates names the batch in the member the server reads:
\* the server starts a ContinueBatch on that batch.
C37_SearchMoreReachesTheBatch ==
  [][\A k \in 1..MaxPending :
       /\ pending[k].pc = "fetch" /\ pending[k].kind = "more"
       /\ Len(all_restaurants_found[pending[k].batchId])
            > batches[pending[k].batchId].called_count
       /\ accepted'.more > accepted.more
       => \E i \in 1..MaxMoreOpen :
            /\ moreReqs[i] = Idle /\ moreReqs'[i] # Idle
            /\ moreReqs'[i].batchId = pending[k].batchId]_vars

\* C40: the client has at most one interval set and not cleared, and none
\* once a status poll has come back completed or failed.
C40_AtMostOnePollTimer ==
  /\ [](Cardinality(Active) <= 1)
  /\ [][\A p \in 1..MaxPolls :
          polls[p].pc = "fetch" /\ polls'[p] = Idle /\ intervals' # intervals
          => Active' = {}]_vars

\* C38: whenever no search_and_call and no search_more is running, after
\* requests that did not overlap, the called_count of every batch is the number
\* of call records of that batch: one record for each dialed candidate, also for
\* a candidate whose placement request failed.
C38_CalledCountEqualsRecords ==
  Quiescent => \A b \in BatchIds : batches[b].called_count = Cardinality(CallsOf(b))

\* C39: pagination makes progress: when a search_more of a batch with intent
\* specific_time fails, every candidate of the stored list that is open at the
\* requested time has been dialed; a page whose candidates are all closed does
\* not keep later open candidates from being dialed.
C39_PaginationReachesEveryOpenPlace ==
  response.route = "search_more" /\ response.code = 404
    => \A b \in BatchIds :
         \A p \in Range(OpenPlaces(all_restaurants_found[b], batches[b].query)) :
           \E c \in CallsOf(b) : calls[c].phone = p.international_phone_number

====
